---- MODULE Spec2Model ----
(***************************************************************************)
(* A model of the migration orchestration engine of pg_orchestrator:       *)
(* upgrade/migration.py (MigrationRunner), the binary runner of            *)
(* upgrade/database.py and the command executor of                         *)
(* manager/dockerManager.py.                                               *)
(*                                                                         *)
(* The runner is one sequential control flow.  Every in-container command  *)
(* (DockerContainerManager.shell) is one step of the model: it is appended *)
(* to the history `log`, and it either succeeds (its effect on the data    *)
(* directories is applied) or raises, which unwinds run_migration.         *)
(***************************************************************************)
EXTENDS Naturals, Sequences, FiniteSets, TLC

\* The longest list of steps a manifest of the model holds.
MaxSteps == 2

(***************************************************************************)
(* Strings that the code takes apart are sequences of characters.          *)
(***************************************************************************)
Digits == {"0", "1", "2", "3", "4", "5", "6", "7", "8", "9"}

V15_6_0 == <<"1", "5", ".", "6", ".", "0">>
V15_8_0 == <<"1", "5", ".", "8", ".", "0">>
V16_6_0 == <<"1", "6", ".", "6", ".", "0">>
V16_8_0 == <<"1", "6", ".", "8", ".", "0">>

\* str.split('.')
RECURSIVE SplitDot(_)
SplitDot(s) ==
    IF \A k \in 1..Len(s) : s[k] # "."
    THEN <<s>>
    ELSE LET p == CHOOSE k \in 1..Len(s) :
                      s[k] = "." /\ \A j \in 1..(k - 1) : s[j] # "."
         IN  <<SubSeq(s, 1, p - 1)>> \o SplitDot(SubSeq(s, p + 1, Len(s)))

\* \d+
IsDigits(s) == Len(s) > 0 /\ \A k \in 1..Len(s) : s[k] \in Digits

\* '.'.join(parts)
RECURSIVE JoinDot(_)
JoinDot(parts) ==
    IF Len(parts) = 0 THEN <<>>
    ELSE IF Len(parts) = 1 THEN parts[1]
    ELSE parts[1] \o <<".">> \o JoinDot(Tail(parts))

\* An edition is a sequence of characters; NoneEdition stands for None.
NoneEdition == <<"None">>
SE == <<"s", "e">>

NoneVersion ==
    [version |-> <<>>, edition |-> NoneEdition, major |-> <<>>, db_type |-> "None"]

\* What '$' lets a pattern match of s: s, or s without its final newline.
BeforeFinalNewline(s) ==
    IF Len(s) > 0 /\ s[Len(s)] = "\n" THEN SubSeq(s, 1, Len(s) - 1) ELSE s

\* DbVersion.create keeping the patch component of a pgdg version.
DbVersion_create_keep_patch(version, edition, db_type) ==
    [err |-> IF IsDigits(SplitDot(version)[1]) /\ Len(SplitDot(version)) \in {2, 3}
             THEN "" ELSE "ValueError",
     v |-> [version |-> version, edition |-> NoneEdition, major |-> SplitDot(version)[1],
            db_type |-> db_type]]

\* DbVersion.create: the version record, or the error it raises.  For ttdb
\* the version is stored as given and major is version.split('.')[0]; for pgdg
\* the version is rebuilt from the groups of the match.
DbVersion_create(version, edition, db_type) ==
    LET parts == SplitDot(BeforeFinalNewline(version))
        allDigits == \A k \in 1..Len(parts) : IsDigits(parts[k])
    IN  IF db_type = "ttdb"
        THEN IF ~(Len(parts) = 3 /\ allDigits)
             THEN [err |-> "ValueError", v |-> NoneVersion]
             ELSE IF edition \in {NoneEdition, <<>>}
             THEN [err |-> "ValueError", v |-> NoneVersion]
             ELSE [err |-> "",
                   v |-> [version |-> version, edition |-> edition,
                          major |-> SplitDot(version)[1], db_type |-> db_type]]
        ELSE IF db_type = "pgdg"
        THEN IF ~(Len(parts) \in {2, 3} /\ allDigits)
             THEN [err |-> "ValueError", v |-> NoneVersion]
             ELSE [err |-> "",
                   v |-> [version |-> JoinDot(SubSeq(parts, 1, 2)), edition |-> NoneEdition,
                          major |-> parts[1], db_type |-> db_type]]
        ELSE [err |-> "ValueError", v |-> NoneVersion]

(***************************************************************************)
(* Database instances.                                                     *)
(***************************************************************************)
NoneBin == <<>>

\* No package given: package_path is None.
NoPackage == "None"

\* What `cat` of the install-path file gives get_bin_dir: whether shell raised,
\* the exit code, and the output in pieces.  NoResult: nothing to read.
NoResult == [raised |-> FALSE, exit_code |-> 1, output |-> <<>>]

\* str.strip(): the pieces without the whitespace at both ends.
IsSpace(c) == c \in {" ", "\n", "\r\n", "\t"}

RECURSIVE lstrip(_)
lstrip(s) == IF s # <<>> /\ IsSpace(Head(s)) THEN lstrip(Tail(s)) ELSE s

RECURSIVE rstrip(_)
rstrip(s) ==
    IF s # <<>> /\ IsSpace(s[Len(s)]) THEN rstrip(SubSeq(s, 1, Len(s) - 1)) ELSE s

strip(s) == rstrip(lstrip(s))

\* os.path.join(path, name)
path_join(path, name) ==
    IF path = <<>> THEN <<name>>
    ELSE IF path[Len(path)] = "/" THEN Append(path, name)
    ELSE path \o <<"/", name>>

\* get_bin_dir: file_path = f"/tmp/pg_install_path_{version.major}.txt"
install_path_file(version) == <<"/tmp/pg_install_path_">> \o version.major \o <<".txt">>

\* get_bin_dir: whether it reads the install-path file.
reads_install_path(version, package_path) ==
    version.db_type = "pgdg" /\ package_path # NoPackage

\* get_bin_dir reading the install-path file whether a package is given or not.
get_bin_dir_without_package(version, package_path, result) ==
    LET install_path == strip(result.output)
    IN  IF version.db_type = "ttdb"
        THEN [err |-> "", path |-> <<"/opt/tantor/db/">> \o version.major \o <<"/bin">>]
        ELSE IF version.db_type # "pgdg"
        THEN [err |-> "ValueError", path |-> NoneBin]
        ELSE IF ~result.raised /\ result.exit_code = 0 /\ install_path # <<>>
        THEN [err |-> "", path |-> path_join(install_path, "bin")]
        ELSE [err |-> "", path |-> <<"/usr/local/pgsql/">> \o version.major \o <<"/bin">>]

\* get_bin_dir(docker_manager, version, package_path): the path returned, or
\* the error raised; `result` is what reading the install-path file gives.
get_bin_dir(version, package_path, result) ==
    LET install_path == strip(result.output)
    IN  IF version.db_type = "ttdb"
        THEN [err |-> "", path |-> <<"/opt/tantor/db/">> \o version.major \o <<"/bin">>]
        ELSE IF version.db_type = "pgdg"
        THEN IF /\ package_path # NoPackage
                /\ ~result.raised
                /\ result.exit_code = 0
                /\ install_path # <<>>
             THEN [err |-> "", path |-> path_join(install_path, "bin")]
             ELSE [err |-> "", path |-> <<"/usr/local/pgsql/">> \o version.major \o <<"/bin">>]
        ELSE [err |-> "ValueError", path |-> NoneBin]

\* DbVersion.__str__ leaving the edition out.
VersionStr_no_edition(v) == v.version \o <<"-", "p", "g", "d", "g">>

\* DbVersion.__str__: f'{version}-{edition}' for ttdb, f'{version}-pgdg' otherwise.
VersionStr(v) ==
    IF v.db_type = "ttdb"
    THEN v.version \o <<"-">> \o v.edition
    ELSE v.version \o <<"-", "p", "g", "d", "g">>

Database(version, bin_path, data_path) ==
    [version |-> version, bin_path |-> bin_path, data_path |-> data_path]

NoneDb == Database(NoneVersion, NoneBin, "None")

(***************************************************************************)
(* Script lists (ScriptList = Union[str, List[str], None]).  A script name *)
(* is the pair <<stem, suffix>>; a list value keeps its shape in `kind`.   *)
(***************************************************************************)
NoScripts == [kind |-> "none", val |-> <<>>]
StrScript(name) == [kind |-> "str", val |-> <<name>>]
ListScripts(names) == [kind |-> "list", val |-> names]

\* The empty string given as a script name.
EmptyName == <<>>

\* bool(scripts): None, the empty string and the empty list are false.
Truthy(scripts) ==
    /\ scripts.kind # "none"
    /\ IF scripts.kind = "str" THEN scripts.val[1] # EmptyName ELSE Len(scripts.val) > 0

\* a or b
Or(a, b) == IF Truthy(a) THEN a ELSE b

\* extract_plain_script_list handing the list over in reverse order.
extract_plain_script_list_reversed(scripts) ==
    IF ~Truthy(scripts) THEN <<>>
    ELSE [k \in 1..Len(scripts.val) |-> scripts.val[Len(scripts.val) - k + 1]]

\* extract_plain_script_list resolving a plain string to no script at all.
extract_plain_script_list_list_only(scripts) ==
    IF scripts.kind = "list" THEN scripts.val ELSE <<>>

\* MigrationRunner.extract_plain_script_list; <<>> stands for its None.
extract_plain_script_list(scripts) ==
    IF ~Truthy(scripts) THEN <<>>
    ELSE IF scripts.kind = "str" THEN <<scripts.val[1]>>
    ELSE IF scripts.kind = "list" THEN scripts.val
    ELSE <<>>

\* endswith('.sql') answering no for every name.
EndsWithSql_never(name) == FALSE

\* script.endswith('.sql')
EndsWithSql(name) == name[Len(name)] = ".sql"

(***************************************************************************)
(* The manifest.                                                           *)
(***************************************************************************)
\* args: additional arguments for binaries, as pairs <<binary, argument>>;
\* {} stands for None.
NoArgs == {}

NoneStep ==
    [type |-> "None", db_version |-> <<>>, db_edition |-> NoneEdition,
     pre_scripts |-> NoScripts, post_scripts |-> NoScripts, verifiers |-> NoScripts,
     args |-> NoArgs]

MigrationStrategy == {"pg_dumpall", "pg_upgrade", "minor"}

\* The strategies and targets of the model's steps: a major upgrade by either
\* tool, and a minor upgrade within major 15 or within major 16, which matches
\* the version before it or does not.
StepTargets ==
    { <<"pg_upgrade", V16_6_0>>, <<"pg_dumpall", V16_6_0>>,
      <<"minor", V15_8_0>>, <<"minor", V16_8_0>> }

\* The steps of the model, with or without step-level scripts and arguments; a
\* step without them leaves pre_scripts, verifiers and args out and has an
\* empty post_scripts list.
Steps ==
    { [type |-> tv[1], db_version |-> tv[2], db_edition |-> SE,
       pre_scripts  |-> IF own THEN StrScript(<<"s_pre", ".sh">>) ELSE NoScripts,
       post_scripts |-> IF own THEN ListScripts(<<<<"s_post", ".sql">>>>) ELSE ListScripts(<<>>),
       verifiers    |-> IF own THEN ListScripts(<<<<"s_verify", ".sh">>, <<"s_verify", ".sql">>>>)
                        ELSE NoScripts,
       args |-> IF own THEN {<<"pg_upgrade", "--link">>, <<"pg_dumpall", "--no-owner">>}
                ELSE NoArgs]
      : tv \in StepTargets, own \in BOOLEAN }

StepLists == UNION { [1..n -> Steps] : n \in 0..MaxSteps }

Manifests ==
    { [db_type |-> "ttdb", db_version |-> V15_6_0, db_edition |-> SE,
       initial_setup_script |-> IF ini THEN StrScript(<<"init_setup", ".sql">>) ELSE NoScripts,
       initial_pre_scripts  |-> IF ini THEN StrScript(<<"init_pre", ".sql">>) ELSE NoScripts,
       initial_post_scripts |-> IF ini THEN ListScripts(<<<<"init_post", ".sh">>>>) ELSE NoScripts,
       pre_scripts  |-> IF gen THEN ListScripts(<<<<"m_pre", ".sql">>, <<"m_pre", ".sh">>>>)
                        ELSE NoScripts,
       post_scripts |-> IF gen THEN StrScript(<<"m_post", ".sh">>) ELSE NoScripts,
       verifiers    |-> IF gen THEN ListScripts(<<<<"m_verify", ".sql">>>>) ELSE NoScripts,
       args |-> IF gen THEN {<<"pg_upgrade", "--clone">>, <<"initdb", "--data-checksums">>}
                ELSE NoArgs,
       steps |-> ss]
      : ini \in BOOLEAN, gen \in BOOLEAN, ss \in StepLists }

(***************************************************************************)
(* The environment (prepare_environment).                                  *)
(***************************************************************************)
env ==
    [tmp_dir |-> "/tmp", new_db |-> "/tmp/new_data", old_db |-> "/tmp/old_data",
     db_installer |-> "db_installer.sh"]

DataDirs == {env.new_db, env.old_db}

(***************************************************************************)
(* The data directories inside the container.  A directory is absent,      *)
(* empty, or holds a cluster: `by` is the step whose initdb created it     *)
(* (0: create_initial_state) and `data` tells whether it carries the data  *)
(* of the run (the initial cluster's, handed on by every strategy).        *)
(***************************************************************************)
Absent == [exists |-> FALSE, cluster |-> FALSE, by |-> 0, data |-> FALSE]
Empty == [exists |-> TRUE, cluster |-> FALSE, by |-> 0, data |-> FALSE]
Cluster(by, data) == [exists |-> TRUE, cluster |-> TRUE, by |-> by, data |-> data]

RmRf(d, p) == [d EXCEPT ![p] = Absent]
MkdirP(d, p) == IF d[p].exists THEN d ELSE [d EXCEPT ![p] = Empty]
\* mv src dst, dst not existing: a rename.  Into an existing dst the source
\* would land inside it.
Mv(d, src, dst) ==
    IF ~d[src].exists THEN d
    ELSE IF d[dst].exists THEN [d EXCEPT ![src] = Absent]
    ELSE [d EXCEPT ![dst] = d[src], ![src] = Absent]
Initdb(d, p, by) == [d EXCEPT ![p] = Cluster(by, by = 0)]
\* pg_upgrade and the load of a dump hand the old cluster's data to the new one.
CarryData(d, old, new) == [d EXCEPT ![new].data = d[old].data]

VARIABLES
    manifest,   \* MigrationRunner.manifest
    state,      \* MigrationRunner.state (RunnerState)
    idx,        \* how many steps the loop of run_migration has taken up
    pc,         \* the method of MigrationRunner that is executing
    i,          \* the position inside that method
    stage,      \* run_scripts: its `stage` argument
    scripts,    \* run_scripts: its `scripts` argument
    disk,       \* the data directories inside the container
    running,    \* data paths whose instance is started
    log,        \* history: every command issued and every completed method
    at_call,    \* history: state and disk when prepare_step was last called
    error,      \* the exception that is propagating, NoError when none
    logfile,    \* run_sql_script examined on its own: the psql log file it reads
    files,      \* run_upgrade: the scripts and packages of the scenario on the host
    container,  \* the container: "none" until it is started
    call,       \* a function examined on its own: the arguments of its call
    ret         \* a function examined on its own: what it returned or raised

vars ==
    <<manifest, state, idx, pc, i, stage, scripts, disk, running, log, at_call, error,
      logfile, files, container, call, ret>>

NoError == [type |-> "", msg |-> "", op |-> ""]

\* No function is examined on its own in the run of a manifest.
NoCall == <<>>
Error(type, msg, op) == [type |-> type, msg |-> msg, op |-> op]

NoneState == [old_db |-> NoneDb, new_db |-> NoneDb, step |-> NoneStep]

\* A log file on the host: whether it exists, and its lines.  The run of a
\* manifest leaves the outcome of run_sql_script's scan open and keeps no file.
NoLogFile == [exists |-> FALSE, lines |-> <<>>]

\* The files of the scenario on the host.  run_migration is handed a started
\* container; what get_script finds is left open in the run of a manifest.
NoFiles == [scripts |-> {}, packages |-> {}, data |-> {}]

\* One command handed to DockerContainerManager.shell by method fn: the
\* program `op` with its arguments; for a database binary (and a script) `ver`
\* is the rendered version of the instance it is run for, else empty.
Cmd(fn, op, args, db) ==
    [kind |-> "cmd", fn |-> fn, step |-> idx, stage |-> "", op |-> op, args |-> args,
     ver |-> IF db = NoneDb THEN <<>> ELSE VersionStr(db.version), ok |-> TRUE, code |-> 0,
     out |-> <<>>]

\* The completion of a method.
Return(fn) ==
    [kind |-> "return", fn |-> fn, step |-> idx, stage |-> "", op |-> "", args |-> <<>>,
     ver |-> <<>>, ok |-> TRUE, code |-> 0,
     out |-> <<>>]

Init ==
    /\ manifest \in Manifests
    /\ state = NoneState
    /\ idx = 0
    /\ pc = "run_migration"
    /\ i = 0
    /\ stage = ""
    /\ scripts = NoScripts
    /\ disk = [p \in DataDirs |-> Absent]
    /\ running = {}
    /\ log = <<>>
    /\ at_call = [state |-> NoneState, disk |-> disk]
    /\ error = NoError
    /\ call = NoCall
    /\ ret = NoCall
    /\ logfile = NoLogFile
    /\ files = NoFiles
    /\ container = "started"

(***************************************************************************)
(* The command executor and the binary runner.                             *)
(***************************************************************************)
\* What a command that exits with status 0 has done to the data directories.
Effect(d, e) ==
    IF e.op = "rm" /\ e.args[2] \in DataDirs THEN RmRf(d, e.args[2])
    ELSE IF e.op = "mkdir" /\ e.args[2] \in DataDirs THEN MkdirP(d, e.args[2])
    ELSE IF e.op = "mv" THEN Mv(d, e.args[1], e.args[2])
    ELSE IF e.op = "initdb" THEN Initdb(d, e.args[2], e.step)
    ELSE IF e.op \in {"pg_upgrade", "psql"} /\ e.fn \in {"run_pg_upgrade", "run_pg_dumpall"}
         THEN CarryData(d, state.old_db.data_path, state.new_db.data_path)
    ELSE d

\* pg_ctl start / stop
RunEffect(r, e) ==
    IF e.op # "pg_ctl" THEN r
    ELSE IF e.args[3] = "start" THEN r \cup {e.args[2]}
    ELSE r \ {e.args[2]}

\* The exit statuses other than 0 a command of the model ends with; the
\* installer script also ends with 127, where the container has no systemctl.
FailureCodes(e) == IF e.op = "db_installer" THEN {1, 127} ELSE {1}

\* The entry of a command that ended with exit status `code`.
Exited(e, code) == [e EXCEPT !.ok = (code = 0), !.code = code]

\* DockerContainerManager.shell with check_code: the command runs; exit status 0
\* returns to the caller (at nextpc), any other raises err to the handler failpc.
shell_to(e, nextpc, nexti, rets, failpc, err) ==
    \/ /\ log' = Append(log, Exited(e, 0)) \o rets
       /\ disk' = Effect(disk, e)
       /\ running' = RunEffect(running, e)
       /\ pc' = nextpc
       /\ i' = nexti
       /\ error' = error
    \/ /\ \E code \in FailureCodes(e) : log' = Append(log, Exited(e, code))
       /\ pc' = failpc
       /\ i' = 0
       /\ error' = err
       /\ UNCHANGED <<disk, running>>

\* shell with the failure logged and swallowed: the caller goes on.
shell_swallow(e, nextpc, nexti, rets) ==
    \/ shell_to(e, nextpc, nexti, rets, "aborted", Error("RuntimeError", "Command failed", e.op))
    \/ /\ log' = Append(log, Exited(e, 1)) \o rets
       /\ pc' = nextpc
       /\ i' = nexti
       /\ error' = Error("RuntimeError", "Command failed", e.op)
       /\ UNCHANGED <<disk, running>>

\* shell called where no handler catches: the RuntimeError ends run_migration.
shell(e, nextpc, nexti, rets) ==
    shell_to(e, nextpc, nexti, rets, "aborted", Error("RuntimeError", "Command failed", e.op))

\* An exception raised by the runner itself: no command is issued.
Raise(err) ==
    /\ pc' = "aborted"
    /\ i' = 0
    /\ error' = err
    /\ UNCHANGED <<disk, running, log>>

\* run_pg_binary(db, binary, *args) as a command of method fn.
run_pg_binary(fn, db, binary, args) == Cmd(fn, binary, args, db)

initdb(fn, db) == run_pg_binary(fn, db, "initdb", <<"-D", db.data_path>>)
pg_ctl(fn, db, command) == run_pg_binary(fn, db, "pg_ctl", <<"-D", db.data_path, command>>)
\* stop_db starting the instance once more instead of stopping it.
stop_db_start(fn, db) == pg_ctl(fn, db, "start")

\* run_db stopping the instance where it has to start it.
run_db_stop(fn, db) == pg_ctl(fn, db, "stop")

run_db(fn, db) == pg_ctl(fn, db, "start")
stop_db(fn, db) == pg_ctl(fn, db, "stop")

\* run_sql_script: psql runs; afterwards its log is scanned, and a line with
\* 'ERROR:' raises although psql exited with status 0.
run_sql_script(e, nextpc, nexti, rets) ==
    \/ shell(e, nextpc, nexti, rets)
    \/ /\ log' = Append(log, e)
       /\ disk' = Effect(disk, e)
       /\ running' = RunEffect(running, e)
       /\ pc' = "aborted"
       /\ i' = 0
       /\ error' = Error("RuntimeError", "Error found during execution", e.op)

\* clean_db_directory without the removal of the directory.
clean_db_directory_no_remove(fn, db_path) ==
    << Cmd(fn, "mkdir", <<"-p", db_path>>, NoneDb),
       Cmd(fn, "chmod", <<"0700", db_path>>, NoneDb),
       Cmd(fn, "chown", <<"postgres:postgres", db_path>>, NoneDb) >>

\* MigrationRunner.clean_db_directory
clean_db_directory(fn, db_path) ==
    << Cmd(fn, "rm", <<"-rf", db_path>>, NoneDb),
       Cmd(fn, "mkdir", <<"-p", db_path>>, NoneDb),
       Cmd(fn, "chmod", <<"0700", db_path>>, NoneDb),
       Cmd(fn, "chown", <<"postgres:postgres", db_path>>, NoneDb) >>

\* create_db: the installer run for `version`, and the instance it returns.
create_db(db_path, version) == Database(version, get_bin_dir(version, NoPackage, NoResult).path, db_path)

run_db_installer(fn, db) ==
    Cmd(fn, "db_installer", <<env.db_installer, "--edition", "--maintenance-version", "--major-version">>, db)

(***************************************************************************)
(* MigrationRunner.                                                        *)
(***************************************************************************)
\* run_migration leaving its loop one step early.
run_migration_one_short ==
    /\ pc = "run_migration"
    /\ IF i = 0
       THEN /\ pc' = "create_initial_state"
            /\ i' = 0
            /\ idx' = idx
            /\ at_call' = at_call
       ELSE IF idx + 1 < Len(manifest.steps)
       THEN /\ pc' = "prepare_step"
            /\ i' = 0
            /\ idx' = idx + 1
            /\ at_call' = [state |-> state, disk |-> disk]
       ELSE /\ pc' = "done"
            /\ i' = 0
            /\ idx' = idx
            /\ at_call' = at_call
    /\ UNCHANGED <<manifest, call, ret, logfile, files, container, state, stage, scripts, disk, running, log, error>>

\* run_migration: create_initial_state, then every step of the manifest in order.
run_migration ==
    /\ pc = "run_migration"
    /\ IF i = 0
       THEN /\ pc' = "create_initial_state"
            /\ i' = 0
            /\ idx' = idx
            /\ at_call' = at_call
       ELSE IF idx < Len(manifest.steps)
       THEN /\ pc' = "prepare_step"
            /\ i' = 0
            /\ idx' = idx + 1
            /\ at_call' = [state |-> state, disk |-> disk]
       ELSE /\ pc' = "done"
            /\ i' = 0
            /\ idx' = idx
            /\ at_call' = at_call
    /\ UNCHANGED <<manifest, call, ret, logfile, files, container, state, stage, scripts, disk, running, log, error>>

create_initial_state ==
    /\ pc = "create_initial_state"
    /\ LET fn == "create_initial_state"
           r == DbVersion_create(manifest.db_version, manifest.db_edition, manifest.db_type)
           initial_db == create_db(env.new_db, r.v)
           old_db == Database(NoneVersion, NoneBin, env.old_db)
           clean == clean_db_directory(fn, initial_db.data_path)
                    \o clean_db_directory(fn, old_db.data_path)
       IN  /\ IF i = 0
              THEN IF r.err # ""
                   THEN Raise(Error(r.err, "Invalid version", ""))
                   ELSE shell(run_db_installer(fn, initial_db), fn, 1, <<>>)
              ELSE IF i <= Len(clean)
              THEN shell(clean[i], fn, i + 1, <<>>)
              ELSE shell(initdb(fn, initial_db), "run_migration", 1, <<Return(fn)>>)
           /\ state' = IF pc' = "run_migration"
                       THEN [old_db |-> old_db, new_db |-> initial_db, step |-> NoneStep]
                       ELSE state
    /\ UNCHANGED <<manifest, call, ret, logfile, files, container, idx, stage, scripts, at_call>>

\* prepare_step's relabelling leaving the placeholder in the "old" slot too.
swap_roles_old_kept(st, old_data) == [st EXCEPT !.new_db = st.old_db]

\* prepare_step's relabelling exchanging the data paths with the roles.
swap_roles_paths_exchanged(st, old_data) ==
    [st EXCEPT !.old_db = [st.new_db EXCEPT !.data_path = old_data],
               !.new_db = [st.old_db EXCEPT !.data_path = st.new_db.data_path]]

\* prepare_step without its relabelling.
swap_roles_forgotten(st, old_data) == st

\* prepare_step's relabelling without the update of the data path.
swap_roles_keep_path(st, old_data) ==
    [st EXCEPT !.old_db = st.new_db, !.new_db = st.old_db]

\* prepare_step's relabelling: the instance that was "new" becomes "old" at the
\* old data path, the instance that was "old" becomes "new".
swap_roles(st, old_data) ==
    [st EXCEPT !.old_db = [st.new_db EXCEPT !.data_path = old_data],
               !.new_db = st.old_db]

prepare_step ==
    /\ pc = "prepare_step"
    /\ LET fn == "prepare_step"
           step == manifest.steps[idx]
           old_data == state.old_db.data_path
           new_data == state.new_db.data_path
           r == DbVersion_create(step.db_version, step.db_edition, manifest.db_type)
           new_db == create_db(env.new_db, r.v)
       IN  IF i = 0
           THEN /\ shell(Cmd(fn, "rm", <<"-rf", old_data>>, NoneDb), fn, 1, <<>>)
                /\ state' = state
           ELSE IF i = 1
           THEN /\ shell(Cmd(fn, "mv", <<new_data, old_data>>, NoneDb), fn, 2, <<>>)
                /\ state' = IF pc' = "aborted" THEN state
                            ELSE swap_roles(state, old_data)
           ELSE /\ IF r.err # ""
                   THEN Raise(Error(r.err, "Invalid version", ""))
                   ELSE shell(run_db_installer(fn, new_db), "run_step", 0, <<Return(fn)>>)
                /\ state' = IF pc' = "aborted" THEN state
                            ELSE [state EXCEPT !.new_db = new_db, !.step = step]
    /\ UNCHANGED <<manifest, call, ret, logfile, files, container, idx, stage, scripts, at_call>>

\* run_step: the dispatch on the step's strategy.
run_step ==
    /\ pc = "run_step"
    /\ pc' = IF state.step.type = "minor" THEN "run_minor" ELSE "initialize_db_cluster"
    /\ i' = 0
    /\ UNCHANGED <<manifest, call, ret, logfile, files, container, state, idx, stage, scripts, disk, running, log, at_call, error>>

\* run_step returning after the post-step scripts, the verifier never called.
after_stage_no_verifier(stg, type) ==
    IF stg = "pre"
    THEN IF type = "minor" THEN <<"run_minor", 1>>
         ELSE IF type = "pg_upgrade" THEN <<"run_pg_upgrade", 0>>
         ELSE <<"run_pg_dumpall", 0>>
    ELSE <<"run_migration", 1>>

\* Where run_step (and run_minor) go on when the scripts of a stage are through.
after_stage(stg, type) ==
    IF stg = "pre"
    THEN IF type = "minor" THEN <<"run_minor", 1>>
         ELSE IF type = "pg_upgrade" THEN <<"run_pg_upgrade", 0>>
         ELSE IF type = "pg_dumpall" THEN <<"run_pg_dumpall", 0>>
         ELSE <<"aborted", 0>>
    ELSE IF stg = "post" THEN <<"run_verifier", 0>>
    ELSE <<"run_migration", 1>>

initialize_db_cluster ==
    /\ pc = "initialize_db_cluster"
    /\ LET fn == "initialize_db_cluster"
           new_db == state.new_db
       IN  IF i = 0
           THEN shell(Cmd(fn, "mkdir", <<"-p", new_db.data_path>>, NoneDb), fn, 1, <<>>)
           ELSE IF i = 1
           THEN shell(Cmd(fn, "chown", <<"postgres:postgres", new_db.data_path>>, NoneDb),
                      fn, 2, <<>>)
           ELSE shell(initdb(fn, new_db), "run_pre_step", 0, <<Return(fn)>>)
    /\ UNCHANGED <<manifest, call, ret, logfile, files, container, state, idx, stage, scripts, at_call>>

\* run_minor moving the old data directory before the new one is removed.
minor_commands_move_first(fn, old_db, new_db) ==
    << Cmd(fn, "mv", <<old_db.data_path, new_db.data_path>>, NoneDb),
       Cmd(fn, "rm", <<"-rf", new_db.data_path>>, NoneDb),
       Cmd(fn, "mkdir", <<"-p", old_db.data_path>>, NoneDb),
       Cmd(fn, "chmod", <<"0700", old_db.data_path>>, NoneDb),
       Cmd(fn, "chown", <<"postgres:postgres", old_db.data_path>>, NoneDb),
       run_db(fn, new_db),
       stop_db(fn, new_db) >>

\* run_minor removing the old data directory instead of the new one.
minor_commands_remove_old(fn, old_db, new_db) ==
    << Cmd(fn, "rm", <<"-rf", old_db.data_path>>, NoneDb),
       Cmd(fn, "mv", <<old_db.data_path, new_db.data_path>>, NoneDb),
       Cmd(fn, "mkdir", <<"-p", old_db.data_path>>, NoneDb),
       Cmd(fn, "chmod", <<"0700", old_db.data_path>>, NoneDb),
       Cmd(fn, "chown", <<"postgres:postgres", old_db.data_path>>, NoneDb),
       run_db(fn, new_db),
       stop_db(fn, new_db) >>

\* The commands of run_minor, after the check of the major versions.
minor_commands(fn, old_db, new_db) ==
    << Cmd(fn, "rm", <<"-rf", new_db.data_path>>, NoneDb),
       Cmd(fn, "mv", <<old_db.data_path, new_db.data_path>>, NoneDb),
       Cmd(fn, "mkdir", <<"-p", old_db.data_path>>, NoneDb),
       Cmd(fn, "chmod", <<"0700", old_db.data_path>>, NoneDb),
       Cmd(fn, "chown", <<"postgres:postgres", old_db.data_path>>, NoneDb),
       run_db(fn, new_db),
       stop_db(fn, new_db) >>

run_minor ==
    /\ pc = "run_minor"
    /\ LET fn == "run_minor"
           old_db == state.old_db
           new_db == state.new_db
           cmds == minor_commands(fn, old_db, new_db)
       IN  IF i = 0
           THEN /\ pc' = "run_pre_step"
                /\ i' = 0
                /\ UNCHANGED <<disk, running, log, error>>
           ELSE IF i = 1
           THEN IF old_db.version.major # new_db.version.major
                THEN Raise(Error("ValueError", "Minor upgrade: major mismatch", ""))
                ELSE /\ pc' = fn
                     /\ i' = 2
                     /\ UNCHANGED <<disk, running, log, error>>
           ELSE IF i - 1 < Len(cmds)
           THEN shell(cmds[i - 1], fn, i + 1, <<>>)
           ELSE shell(cmds[i - 1], "run_post_step", 0, <<>>)
    /\ UNCHANGED <<manifest, call, ret, logfile, files, container, state, idx, stage, scripts, at_call>>

\* run_pre_step without its minor branch: the step's pre_scripts for every strategy.
pre_step_scripts_step_first(step) == Or(step.pre_scripts, manifest.pre_scripts)

\* The scripts run_pre_step hands to run_scripts.
pre_step_scripts(step) ==
    IF step.type = "minor"
    THEN Or(manifest.initial_pre_scripts, manifest.pre_scripts)
    ELSE Or(step.pre_scripts, manifest.pre_scripts)

\* run_post_step running the step's post_scripts and then the manifest's.
post_step_scripts_merged(step) ==
    ListScripts(extract_plain_script_list(step.post_scripts)
                \o extract_plain_script_list(manifest.post_scripts))

\* The scripts run_post_step hands to run_scripts.  The class defines
\* run_post_step twice; the later definition is the method the class has.
post_step_scripts(step) == Or(step.post_scripts, manifest.post_scripts)

\* run_verifier preferring the manifest's verifiers to the step's.
verifier_scripts_manifest_first(step) == Or(manifest.verifiers, step.verifiers)

\* The scripts run_verifier hands to run_scripts.
verifier_scripts(step) == Or(step.verifiers, manifest.verifiers)

run_pre_step ==
    /\ pc = "run_pre_step"
    /\ scripts' = pre_step_scripts(state.step)
    /\ stage' = "pre"
    /\ pc' = "run_scripts"
    /\ i' = 0
    /\ UNCHANGED <<manifest, call, ret, logfile, files, container, state, idx, disk, running, log, at_call, error>>

run_post_step ==
    /\ pc = "run_post_step"
    /\ scripts' = post_step_scripts(state.step)
    /\ stage' = "post"
    /\ pc' = "run_scripts"
    /\ i' = 0
    /\ UNCHANGED <<manifest, call, ret, logfile, files, container, state, idx, disk, running, log, at_call, error>>

run_verifier ==
    /\ pc = "run_verifier"
    /\ scripts' = verifier_scripts(state.step)
    /\ stage' = "verifier"
    /\ pc' = "run_scripts"
    /\ i' = 0
    /\ UNCHANGED <<manifest, call, ret, logfile, files, container, state, idx, disk, running, log, at_call, error>>

\* The method whose call of run_scripts is the given stage.
StageMethod(stg) ==
    IF stg = "pre" THEN "run_pre_step"
    ELSE IF stg = "post" THEN "run_post_step"
    ELSE "run_verifier"

\* The methods that have completed when the scripts of a stage are through.
StageReturns(stg) ==
    IF stg = "verifier" THEN <<Return("run_verifier"), Return("run_step")>>
    ELSE <<Return(StageMethod(stg))>>

\* run_scripts(scripts, stage), with run_psql_script and run_shell_script.
run_scripts ==
    /\ pc = "run_scripts"
    /\ LET fn == "run_scripts"
           new_db == state.new_db
           script_list == IF Truthy(scripts) THEN extract_plain_script_list(scripts) ELSE <<>>
           n == Len(script_list)
           next == after_stage(stage, state.step.type)
           at(e) == [e EXCEPT !.stage = stage]
       IN  IF n = 0
           THEN /\ pc' = next[1]
                /\ i' = next[2]
                /\ log' = log \o StageReturns(stage)
                /\ UNCHANGED <<disk, running, error>>
           ELSE IF i = 0
           THEN shell(at(run_db(fn, new_db)), fn, 1, <<>>)
           ELSE IF i <= n
           THEN \/ Raise(Error("FileNotFoundError", "Failed to find script", ""))
                \/ IF EndsWithSql(script_list[i])
                   THEN run_sql_script(
                            at(run_pg_binary(fn, new_db, "psql", <<"-f">> \o script_list[i])),
                            fn, i + 1, <<>>)
                   ELSE shell(at(Cmd(fn, "bash",
                                     script_list[i] \o <<"DB_PATH", new_db.data_path>>, new_db)),
                              fn, i + 1, <<>>)
           ELSE shell(at(stop_db(fn, new_db)), next[1], next[2], StageReturns(stage))
    /\ UNCHANGED <<manifest, call, ret, logfile, files, container, state, idx, stage, scripts, at_call>>

\* pg_upgrade with the old binaries and data passed as the new ones.
pg_upgrade_options_swapped(new_db, old_db) ==
    <<"-b">> \o new_db.bin_path \o <<"-B">> \o old_db.bin_path
    \o <<"-d", new_db.data_path, "-D", old_db.data_path>>

\* The options pg_upgrade is called with.
pg_upgrade_options(new_db, old_db) ==
    <<"-b">> \o old_db.bin_path \o <<"-B">> \o new_db.bin_path
    \o <<"-d", old_db.data_path, "-D", new_db.data_path>>

\* What pg_upgrade prints when it succeeds, in pieces: the scripts it names.
PgUpgradeOutputs ==
    { <<"Upgrade Complete", "delete_old_cluster.sh">>,
      <<"update_extensions.sql", "Upgrade Complete", "delete_old_cluster.sh">> }

\* pg_upgrade taking every output as one that names the script.
names_script_always(result) == TRUE

\* pg_upgrade: script in result
names_script(result) == \E k \in 1..Len(result) : result[k] = "update_extensions.sql"

\* run_pg_upgrade, with database.pg_upgrade.
run_pg_upgrade ==
    /\ pc = "run_pg_upgrade"
    /\ LET fn == "run_pg_upgrade"
           new_db == state.new_db
           old_db == state.old_db
           upgrade(result) ==
               [run_pg_binary(fn, new_db, "pg_upgrade", pg_upgrade_options(new_db, old_db))
                   EXCEPT !.out = result]
           failed == Error("RuntimeError", "Command failed", "pg_upgrade")
       IN  IF i = 0
           THEN shell(Cmd(fn, "cp", <<old_db.data_path, "postgresql.conf", new_db.data_path>>,
                          NoneDb), fn, 1, <<>>)
           ELSE IF i = 1
           THEN \E result \in PgUpgradeOutputs :
                    IF names_script(result)
                    THEN shell_to(upgrade(result), fn, 2, <<>>, "run_pg_binary", failed)
                    ELSE shell_to(upgrade(result), "run_post_step", 0, <<Return(fn)>>,
                                  "run_pg_binary", failed)
           ELSE IF i = 2
           THEN shell(run_db(fn, new_db), fn, 3, <<>>)
           ELSE IF i = 3
           THEN run_sql_script(
                    run_pg_binary(fn, new_db, "psql", <<"-f", "update_extensions", ".sql">>),
                    fn, 4, <<>>)
           ELSE shell(stop_db(fn, new_db), "run_post_step", 0, <<Return(fn)>>)
    /\ UNCHANGED <<manifest, call, ret, logfile, files, container, state, idx, stage, scripts, at_call>>

\* run_pg_binary's handler collecting the logs and returning to its caller,
\* the error of pg_upgrade not raised again.
run_pg_binary_except_swallowed ==
    /\ pc = "run_pg_binary"
    /\ LET fn == "run_pg_binary"
           e == Cmd(fn, "mkdir", <<"-p", "additionally_errors_logs">>, NoneDb)
       IN  shell(e, "run_post_step", 0, <<Return("run_pg_upgrade")>>)
    /\ UNCHANGED <<manifest, call, ret, logfile, files, container, state, idx, stage, scripts, at_call>>

\* run_pg_binary's handler: pg_upgrade failed, its logs are collected and the
\* error is raised again.
run_pg_binary_except ==
    /\ pc = "run_pg_binary"
    /\ LET fn == "run_pg_binary"
           capture ==
               << Cmd(fn, "mkdir", <<"-p", "additionally_errors_logs">>, NoneDb),
                  Cmd(fn, "bash", <<"-c", "cp -r pg_upgrade_output.d/*/log/*">>, NoneDb),
                  Cmd(fn, "find", <<"-type", "d", "chmod", "775">>, NoneDb),
                  Cmd(fn, "find", <<"-type", "f", "chmod", "664">>, NoneDb) >>
       IN  IF i + 1 < Len(capture)
           THEN shell(capture[i + 1], fn, i + 1, <<>>)
           ELSE shell(capture[i + 1], "aborted", 0, <<>>)
    /\ UNCHANGED <<manifest, call, ret, logfile, files, container, state, idx, stage, scripts, at_call>>

\* copy_configuration_files
config_files == <<"postgresql.conf", "postgresql.auto.conf", "pg_hba.conf">>

copy_configuration_files(fn, old_data_path, new_data_path) ==
    [k \in 1..Len(config_files) |->
        Cmd(fn, "cp", <<old_data_path, config_files[k], new_data_path, config_files[k]>>,
            NoneDb)]

\* Environment.get_temp_filename(f'dump_{old_version}.sql')
dump_file(old_version) == <<env.tmp_dir, "dump_">> \o VersionStr(old_version) \o <<".sql">>

\* run_pg_dumpall starting the new instance before the old one is stopped.
dumpall_commands_both_started(fn, new_db, old_db) ==
    << run_db(fn, old_db),
       run_pg_binary(fn, new_db, "pg_dumpall", <<"-f">> \o dump_file(old_db.version)),
       run_db(fn, new_db),
       stop_db(fn, old_db) >>
    \o copy_configuration_files(fn, old_db.data_path, new_db.data_path)
    \o << run_pg_binary(fn, new_db, "psql", <<"-f">> \o dump_file(old_db.version)),
          stop_db(fn, new_db) >>

\* run_pg_dumpall copying the configuration while the old instance still runs.
dumpall_commands_copy_first(fn, new_db, old_db) ==
    << run_db(fn, old_db),
       run_pg_binary(fn, new_db, "pg_dumpall", <<"-f">> \o dump_file(old_db.version)) >>
    \o copy_configuration_files(fn, old_db.data_path, new_db.data_path)
    \o << stop_db(fn, old_db),
          run_db(fn, new_db),
          run_pg_binary(fn, new_db, "psql", <<"-f">> \o dump_file(old_db.version)),
          stop_db(fn, new_db) >>

\* The commands of run_pg_dumpall.
dumpall_commands(fn, new_db, old_db) ==
    << run_db(fn, old_db),
       run_pg_binary(fn, new_db, "pg_dumpall", <<"-f">> \o dump_file(old_db.version)),
       stop_db(fn, old_db) >>
    \o copy_configuration_files(fn, old_db.data_path, new_db.data_path)
    \o << run_db(fn, new_db),
          run_pg_binary(fn, new_db, "psql", <<"-f">> \o dump_file(old_db.version)),
          stop_db(fn, new_db) >>

run_pg_dumpall ==
    /\ pc = "run_pg_dumpall"
    /\ LET fn == "run_pg_dumpall"
           cmds == dumpall_commands(fn, state.new_db, state.old_db)
           e == cmds[i + 1]
           last == i + 1 = Len(cmds)
           nextpc == IF last THEN "run_post_step" ELSE fn
           nexti == IF last THEN 0 ELSE i + 1
           rets == IF last THEN <<Return(fn)>> ELSE <<>>
       IN  IF e.op = "cp"
           THEN shell_to(e, nextpc, nexti, rets,
                         "aborted", Error("RuntimeError", "Failed to copy", "cp"))
           ELSE IF e.op = "psql"
           THEN run_sql_script(e, nextpc, nexti, rets)
           ELSE shell(e, nextpc, nexti, rets)
    /\ UNCHANGED <<manifest, call, ret, logfile, files, container, state, idx, stage, scripts, at_call>>

Next ==
    \/ run_migration
    \/ create_initial_state
    \/ prepare_step
    \/ run_step
    \/ initialize_db_cluster
    \/ run_minor
    \/ run_pre_step
    \/ run_post_step
    \/ run_verifier
    \/ run_scripts
    \/ run_pg_upgrade
    \/ run_pg_binary_except
    \/ run_pg_dumpall

Spec == Init /\ [][Next]_vars

\* The run has come to an end: run_migration has returned or an exception has
\* left it.  These are the states in which no method has a step to take.
Terminated == pc \in {"done", "aborted"}

\* The run as the interpreter executes it: until run_migration has come to an
\* end the method that is executing takes its next step, and every command
\* issued comes back.  (Weak fairness of Next, with Terminated for the states
\* where Next is not enabled.)
SpecFair == Init /\ [][Next]_vars /\ ([]<>Terminated \/ []<><<Next>>_vars)

(***************************************************************************)
(* run_migration for manifests whose versions DbVersion.create may reject: *)
(* a starting version or a step with a version that is not                 *)
(* MAJOR.MINOR.PATCH, or without an edition.                               *)
(***************************************************************************)
V15_6 == <<"1", "5", ".", "6">>
V16_6 == <<"1", "6", ".", "6">>

\* Steps whose version DbVersion.create rejects for ttdb.
InvalidSteps ==
    { [s EXCEPT !.db_version = V16_6] : s \in {t \in Steps : t.type = "pg_upgrade"} }
    \cup { [s EXCEPT !.db_edition = NoneEdition] : s \in {t \in Steps : t.type = "minor"} }

VersionSteps == {s \in Steps \cup InvalidSteps : Truthy(s.pre_scripts)}

VersionManifests ==
    { [m EXCEPT !.db_version = v, !.db_edition = e, !.steps = ss]
      : m \in {n \in Manifests : /\ n.steps = <<>>
                                 /\ Truthy(n.initial_pre_scripts)
                                 /\ Truthy(n.pre_scripts)},
        v \in {V15_6_0, V15_6}, e \in {SE, NoneEdition},
        ss \in UNION { [1..n -> VersionSteps] : n \in 0..MaxSteps } }

VersionInit ==
    /\ manifest \in VersionManifests
    /\ state = NoneState
    /\ idx = 0
    /\ pc = "run_migration"
    /\ i = 0
    /\ stage = ""
    /\ scripts = NoScripts
    /\ disk = [p \in DataDirs |-> Absent]
    /\ running = {}
    /\ log = <<>>
    /\ at_call = [state |-> NoneState, disk |-> disk]
    /\ error = NoError
    /\ call = NoCall
    /\ ret = NoCall
    /\ logfile = NoLogFile
    /\ files = NoFiles
    /\ container = "started"

SpecVersions == VersionInit /\ [][Next]_vars

(***************************************************************************)
(* run_migration in a container whose data directories are absent, empty   *)
(* or hold a cluster left there before the run.                            *)
(***************************************************************************)
\* What a data directory is when run_migration is called.
InitialDirs == {Absent, Empty, Cluster(0, FALSE)}

\* The manifests of the model that have every kind of script.
DirsManifests ==
    { m \in Manifests : /\ Truthy(m.initial_pre_scripts)
                        /\ Truthy(m.pre_scripts)
                        /\ \A k \in 1..Len(m.steps) : Truthy(m.steps[k].pre_scripts) }

DirsInit ==
    /\ manifest \in DirsManifests
    /\ state = NoneState
    /\ idx = 0
    /\ pc = "run_migration"
    /\ i = 0
    /\ stage = ""
    /\ scripts = NoScripts
    /\ disk \in [DataDirs -> InitialDirs]
    /\ running = {}
    /\ log = <<>>
    /\ at_call = [state |-> NoneState, disk |-> disk]
    /\ error = NoError
    /\ call = NoCall
    /\ ret = NoCall
    /\ logfile = NoLogFile
    /\ files = NoFiles
    /\ container = "started"

SpecDirs == DirsInit /\ [][Next]_vars

(***************************************************************************)
(* run_sql_script on its own: one call, for every psql log file, psql       *)
(* output and exit status of the model.                                    *)
(***************************************************************************)
\* The most lines one psql run writes.
MaxOutput == 2

\* Lines of a psql log, in pieces; the second and third have the piece 'ERROR:'.
LogLines ==
    { <<"CREATE TABLE">>,
      <<"psql:script.sql:3: ", "ERROR:", "  relation exists">>,
      <<"ERROR:", "  syntax error">>,
      <<"WARNING:  ", "error: ", "ERROR">> }

Outputs == UNION { [1..n -> LogLines] : n \in 0..MaxOutput }

\* The log file before the call: missing, empty, or left by an earlier run.
LogFiles ==
    {NoLogFile} \cup { [exists |-> TRUE, lines |-> ls] : ls \in {<<>>} \cup { <<x>> : x \in LogLines } }

\* 'ERROR:' in line, by the beginning of the line only.
HasErrorMarker_at_start(line) == line[1] = "ERROR:"

\* 'ERROR:' in line
HasErrorMarker(line) == \E k \in 1..Len(line) : line[k] = "ERROR:"

\* shell's `with open(logfile, 'a')` for every chunk of output: nothing is
\* opened, and no file created, when the command prints nothing.
WriteLog(f, output) ==
    IF output = <<>> THEN f
    ELSE [exists |-> TRUE, lines |-> f.lines \o output]

\* A warning of the logger.
Warning(fn) == [Return(fn) EXCEPT !.kind = "warning"]

SqlDb ==
    LET v == DbVersion_create(V15_6_0, SE, "ttdb").v
    IN  Database(v, get_bin_dir(v, NoPackage, NoResult).path, env.new_db)

SqlInit ==
    /\ manifest \in { m \in Manifests : m.steps = <<>> /\ ~Truthy(m.pre_scripts)
                                        /\ ~Truthy(m.initial_pre_scripts) }
    /\ state = [NoneState EXCEPT !.new_db = SqlDb]
    /\ idx = 0
    /\ pc = "run_sql_script"
    /\ i = 0
    /\ stage = ""
    /\ scripts = NoScripts
    /\ disk = [p \in DataDirs |-> Absent]
    /\ running = {}
    /\ log = <<>>
    /\ at_call = [state |-> NoneState, disk |-> disk]
    /\ error = NoError
    /\ call = NoCall
    /\ ret = NoCall
    /\ logfile \in LogFiles
    /\ files = NoFiles
    /\ container = "started"

\* run_sql_script, its call of run_pg_binary: psql runs, what it prints goes to
\* the log file, and a non-zero exit status raises.
run_sql_script_psql ==
    /\ pc = "run_sql_script"
    /\ \E output \in Outputs, exit_code \in {0, 1} :
           LET e == run_pg_binary("run_sql_script", state.new_db, "psql",
                                  <<"-f", "script", ".sql">>)
           IN  /\ logfile' = WriteLog(logfile, output)
               /\ IF exit_code # 0
                  THEN /\ log' = Append(log, Exited(e, 1))
                       /\ pc' = "aborted"
                       /\ error' = Error("RuntimeError", "Command failed", "psql")
                  ELSE /\ log' = Append(log, e)
                       /\ pc' = "run_sql_script_scan"
                       /\ error' = error
    /\ UNCHANGED <<manifest, call, ret, files, container, state, idx, i, stage, scripts, disk, running,
                 at_call>>

\* run_sql_script, after psql: the scan of the log file.
run_sql_script_scan ==
    /\ pc = "run_sql_script_scan"
    /\ IF logfile.exists
       THEN IF \E k \in 1..Len(logfile.lines) : HasErrorMarker(logfile.lines[k])
            THEN /\ pc' = "aborted"
                 /\ error' = Error("RuntimeError", "Error found during execution", "psql")
                 /\ log' = log
            ELSE /\ pc' = "returned"
                 /\ error' = error
                 /\ log' = Append(log, Return("run_sql_script"))
       ELSE /\ pc' = "returned"
            /\ error' = error
            /\ log' = log \o <<Warning("run_sql_script"), Return("run_sql_script")>>
    /\ UNCHANGED <<manifest, call, ret, logfile, files, container, state, idx, i, stage, scripts, disk, running, at_call>>

SqlNext ==
    \/ run_sql_script_psql
    \/ run_sql_script_scan

SpecSql == SqlInit /\ [][SqlNext]_vars

(***************************************************************************)
(* run_upgrade up to its call of run_migration: prepare_environment,       *)
(* create_docker_manager and prepare_container_env, for every manifest and *)
(* every set of scenario files of the model.                               *)
(***************************************************************************)
\* The most steps of a manifest here.
MaxUpgradeSteps == 1

\* The scripts and packages the manifests here refer to.
ScriptFiles == { <<"init_pre", ".sql">>, <<"m_post", ".sh">>, <<"s_verify", ".sh">> }
PackageFiles == { "initial.deb", "step.deb" }

UpgradeSteps ==
    { [type |-> "minor", db_version |-> V15_8_0, db_edition |-> SE,
       pre_scripts |-> NoScripts, post_scripts |-> ListScripts(<<>>),
       verifiers |-> IF own THEN ListScripts(<<<<"s_verify", ".sh">>>>) ELSE NoScripts,
       package |-> pk]
      : own \in BOOLEAN, pk \in {NoPackage, "step.deb"} }

UpgradeManifests ==
    { [db_type |-> "ttdb", db_version |-> V15_6_0, db_edition |-> SE,
       initial_pre_scripts  |-> IF ini THEN StrScript(<<"init_pre", ".sql">>) ELSE NoScripts,
       initial_post_scripts |-> NoScripts,
       pre_scripts  |-> NoScripts,
       post_scripts |-> IF gen THEN StrScript(<<"m_post", ".sh">>) ELSE NoScripts,
       verifiers    |-> NoScripts,
       package |-> pk,
       steps |-> ss]
      : ini \in BOOLEAN, gen \in BOOLEAN, pk \in {NoPackage, "initial.deb"},
        ss \in UNION { [1..n -> UpgradeSteps] : n \in 0..MaxUpgradeSteps } }

\* The scenario on the host: the files in its scripts and packages
\* directories, and the data paths that exist on the host.
UpgradeFiles ==
    [scripts : SUBSET ScriptFiles, packages : SUBSET PackageFiles, data : {{}, DataDirs}]

\* check_scripts_exist.iter_script_list
iter_script_list(s) == IF ~Truthy(s) THEN <<>> ELSE s.val

\* check_scripts_exist.iter_scripts: the manifest's pre_scripts, post_scripts
\* and verifiers, then those of every step.
RECURSIVE iter_step_scripts(_)
iter_step_scripts(steps) ==
    IF steps = <<>> THEN <<>>
    ELSE iter_script_list(Head(steps).pre_scripts)
         \o iter_script_list(Head(steps).post_scripts)
         \o iter_script_list(Head(steps).verifiers)
         \o iter_step_scripts(Tail(steps))

iter_scripts(m) ==
    iter_script_list(m.pre_scripts) \o iter_script_list(m.post_scripts)
    \o iter_script_list(m.verifiers) \o iter_step_scripts(m.steps)

\* check_scripts_exist: the error it raises, NoError when it returns.
check_scripts_exist(scripts_dir, m) ==
    LET missing_scripts ==
            SelectSeq(iter_scripts(m), LAMBDA s : s # EmptyName /\ s \notin scripts_dir)
    IN  IF missing_scripts # <<>>
        THEN Error("FileNotFoundError", "Script files not found", "")
        ELSE NoError

\* prepare_environment.has_scripts
has_scripts(m) ==
    \/ \E f \in {m.pre_scripts, m.post_scripts, m.verifiers,
                 m.initial_pre_scripts, m.initial_post_scripts} : Truthy(f)
    \/ \E k \in 1..Len(m.steps) :
           \E f \in {m.steps[k].pre_scripts, m.steps[k].post_scripts, m.steps[k].verifiers} :
               Truthy(f)

\* prepare_environment.has_packages
has_packages(m) ==
    \/ m.package # NoPackage
    \/ \E k \in 1..Len(m.steps) : m.steps[k].package # NoPackage

\* check_packages_exist looking at the manifest's package only.
check_packages_exist_manifest_only(packages_dir, m) ==
    IF m.package # NoPackage /\ m.package \notin packages_dir
    THEN Error("FileNotFoundError", "Package file not found", "")
    ELSE NoError

\* check_packages_exist: the error it raises, NoError when it returns.
check_packages_exist(packages_dir, m) ==
    LET package_files ==
            (IF m.package # NoPackage THEN <<m.package>> ELSE <<>>)
            \o SelectSeq([k \in 1..Len(m.steps) |-> m.steps[k].package],
                         LAMBDA pk : pk # NoPackage)
    IN  IF \E k \in 1..Len(package_files) : package_files[k] \notin packages_dir
        THEN Error("FileNotFoundError", "Package file not found", "")
        ELSE NoError

UpgradeInit ==
    /\ manifest \in UpgradeManifests
    /\ files \in UpgradeFiles
    /\ container = "none"
    /\ state = NoneState
    /\ idx = 0
    /\ pc = "prepare_environment"
    /\ i = 0
    /\ stage = ""
    /\ scripts = NoScripts
    /\ disk = [p \in DataDirs |-> Absent]
    /\ running = {}
    /\ log = <<>>
    /\ at_call = [state |-> NoneState, disk |-> disk]
    /\ error = NoError
    /\ call = NoCall
    /\ ret = NoCall
    /\ logfile = NoLogFile

\* prepare_environment: the checks of the scripts and of the packages.
prepare_environment ==
    /\ pc = "prepare_environment"
    /\ LET scripts_error == IF has_scripts(manifest)
                            THEN check_scripts_exist(files.scripts, manifest)
                            ELSE NoError
           packages_error == IF has_packages(manifest)
                             THEN check_packages_exist(files.packages, manifest)
                             ELSE NoError
       IN  IF scripts_error # NoError THEN Raise(scripts_error)
           ELSE IF packages_error # NoError THEN Raise(packages_error)
           ELSE /\ pc' = "create_docker_manager"
                /\ i' = 0
                /\ UNCHANGED <<disk, running, log, error>>
    /\ UNCHANGED <<manifest, call, ret, logfile, files, container, state, idx, stage, scripts, at_call>>

\* create_docker_manager with start_container, which logs a ContainerError or
\* an APIError and returns; any other exception is raised.
create_docker_manager ==
    /\ pc = "create_docker_manager"
    /\ \/ /\ container' = "started"
          /\ pc' = "prepare_container_env"
          /\ error' = error
       \/ /\ container' = container
          /\ pc' = "prepare_container_env"
          /\ error' = error
       \/ /\ container' = container
          /\ pc' = "aborted"
          /\ error' = Error("Exception", "Failed to start Docker container", "")
    /\ i' = 0
    /\ UNCHANGED <<manifest, call, ret, logfile, files, state, idx, stage, scripts, disk, running, log,
                   at_call>>

\* The commands of prepare_container_env.  A directory of the scenario exists
\* when it holds a file.
container_env_commands(fn, m, f) ==
    [k \in 1..Cardinality(f.data) |->
        Cmd(fn, "rm", <<"-rf", IF k = 1 /\ env.new_db \in f.data THEN env.new_db
                                ELSE env.old_db>>, NoneDb)]
    \o (IF m.db_type = "ttdb"
        THEN << Cmd(fn, "apt-get", <<"update">>, NoneDb),
                Cmd(fn, "apt-get", <<"install", "-y", "wget">>, NoneDb),
                Cmd(fn, "wget", <<"db_installer.sh", "-O", env.db_installer>>, NoneDb),
                Cmd(fn, "chmod", <<"+x", env.db_installer>>, NoneDb) >>
        ELSE <<>>)
    \o (IF has_scripts(m) /\ f.scripts # {}
        THEN <<Cmd(fn, "chmod", <<"-R", "+x", "scripts">>, NoneDb)>> ELSE <<>>)
    \o (IF has_packages(m) /\ f.packages # {}
        THEN <<Cmd(fn, "chmod", <<"-R", "+r", "packages">>, NoneDb)>> ELSE <<>>)

\* prepare_container_env; without a container the first command raises.
prepare_container_env ==
    /\ pc = "prepare_container_env"
    /\ LET fn == "prepare_container_env"
           cmds == container_env_commands(fn, manifest, files)
       IN  IF cmds = <<>>
           THEN /\ pc' = "run_migration"
                /\ i' = 0
                /\ log' = Append(log, Return(fn))
                /\ UNCHANGED <<disk, running, error>>
           ELSE IF container # "started"
           THEN Raise(Error("AttributeError", "no container", cmds[1].op))
           ELSE IF i + 1 < Len(cmds)
           THEN shell(cmds[i + 1], fn, i + 1, <<>>)
           ELSE shell(cmds[i + 1], "run_migration", 0, <<Return(fn)>>)
    /\ UNCHANGED <<manifest, call, ret, logfile, files, container, state, idx, stage, scripts, at_call>>

UpgradeNext ==
    \/ prepare_environment
    \/ create_docker_manager
    \/ prepare_container_env

SpecUpgrade == UpgradeInit /\ [][UpgradeNext]_vars

(***************************************************************************)
(* DbVersion.create and DbVersion.__str__ on their own, for every version  *)
(* string, edition and db_type of the model.                               *)
(***************************************************************************)
\* The longest version string handed to DbVersion.create.
MaxVersionLen == 6

\* The characters of a version string: a digit, the dot, a letter, a newline.
VersionChars == {"1", ".", "a", "\n"}

VersionStrings == UNION { [1..n -> VersionChars] : n \in 0..MaxVersionLen }

CreateCalls ==
    [version : VersionStrings, edition : {NoneEdition, <<>>, SE}, db_type : {"ttdb", "pgdg"}]

\* Nothing returned yet.
NoRet == [err |-> "", v |-> NoneVersion, str |-> <<>>]

CreateInit ==
    /\ manifest \in { m \in Manifests : m.steps = <<>> /\ ~Truthy(m.pre_scripts)
                                        /\ ~Truthy(m.initial_pre_scripts) }
    /\ state = NoneState
    /\ idx = 0
    /\ pc = "create"
    /\ i = 0
    /\ stage = ""
    /\ scripts = NoScripts
    /\ disk = [p \in DataDirs |-> Absent]
    /\ running = {}
    /\ log = <<>>
    /\ at_call = [state |-> NoneState, disk |-> disk]
    /\ error = NoError
    /\ logfile = NoLogFile
    /\ files = NoFiles
    /\ container = "started"
    /\ call \in CreateCalls
    /\ ret = NoRet

\* DbVersion.create(version, edition, db_type)
create ==
    /\ pc = "create"
    /\ LET r == DbVersion_create(call.version, call.edition, call.db_type)
       IN  /\ ret' = [ret EXCEPT !.err = r.err, !.v = r.v]
           /\ pc' = IF r.err = "" THEN "str" ELSE "raised"
    /\ UNCHANGED <<manifest, call, logfile, files, container, state, idx, i, stage, scripts,
                   disk, running, log, at_call, error>>

\* str(version) of the version created
str ==
    /\ pc = "str"
    /\ ret' = [ret EXCEPT !.str = VersionStr(ret.v)]
    /\ pc' = "returned"
    /\ UNCHANGED <<manifest, call, logfile, files, container, state, idx, i, stage, scripts,
                   disk, running, log, at_call, error>>

CreateNext ==
    \/ create
    \/ str

SpecCreate == CreateInit /\ [][CreateNext]_vars

(***************************************************************************)
(* The log names of two versions: DbVersion.create for each, then the log  *)
(* directory create_db makes and the log file run_pg_binary writes.        *)
(***************************************************************************)
RenderVersions == {V15_6_0, V15_8_0, V16_6_0, V15_6, V16_6, V15_6_0 \o <<"\n">>}
RenderEditions == {SE, <<"b", "e">>, <<"p", "g", "d", "g">>, <<"0", "-", "s", "e">>}

RenderCalls == [version : RenderVersions, edition : RenderEditions, db_type : {"ttdb", "pgdg"}]

\* run_pg_binary: f'{binary}_{db.version}.log'
logfilename(binary, version) == <<binary, "_">> \o VersionStr(version) \o <<".", "l", "o", "g">>

\* create_db: f'logs_{version}'
db_logs_dir(version) == <<"logs", "_">> \o VersionStr(version)

RenderInit ==
    /\ manifest \in { m \in Manifests : m.steps = <<>> /\ ~Truthy(m.pre_scripts)
                                        /\ ~Truthy(m.initial_pre_scripts) }
    /\ state = NoneState
    /\ idx = 0
    /\ pc = "create_versions"
    /\ i = 0
    /\ stage = ""
    /\ scripts = NoScripts
    /\ disk = [p \in DataDirs |-> Absent]
    /\ running = {}
    /\ log = <<>>
    /\ at_call = [state |-> NoneState, disk |-> disk]
    /\ error = NoError
    /\ logfile = NoLogFile
    /\ files = NoFiles
    /\ container = "started"
    /\ call \in RenderCalls \X RenderCalls
    /\ ret = <<>>

\* DbVersion.create for both versions.
create_versions ==
    /\ pc = "create_versions"
    /\ LET r == [k \in 1..2 |->
                    DbVersion_create(call[k].version, call[k].edition, call[k].db_type)]
       IN  IF \E k \in 1..2 : r[k].err # ""
           THEN pc' = "raised" /\ ret' = ret
           ELSE pc' = "log_names" /\ ret' = [k \in 1..2 |-> [v |-> r[k].v]]
    /\ UNCHANGED <<manifest, call, logfile, files, container, state, idx, i, stage, scripts,
                   disk, running, log, at_call, error>>

\* The rendering, the log directory and the psql log file of both versions.
log_names ==
    /\ pc = "log_names"
    /\ ret' = [k \in 1..2 |->
                  [v |-> ret[k].v,
                   str |-> VersionStr(ret[k].v),
                   logs_dir |-> db_logs_dir(ret[k].v),
                   logfile |-> logfilename("psql", ret[k].v)]]
    /\ pc' = "returned"
    /\ UNCHANGED <<manifest, call, logfile, files, container, state, idx, i, stage, scripts,
                   disk, running, log, at_call, error>>

RenderNext ==
    \/ create_versions
    \/ log_names

SpecRender == RenderInit /\ [][RenderNext]_vars

(***************************************************************************)
(* run_db_installer on its own, with verify_package_version: for either    *)
(* db_type, with or without a package file, for every outcome of dpkg -I   *)
(* of the model.                                                           *)
(***************************************************************************)
\* What dpkg -I prints, split at white space: field names are one piece,
\* version numbers are sequences of characters.
V16_6_1 == <<"1", "6", ".", "6", "-", "1">>
V16_6_0_1 == <<"1", "6", ".", "6", ".", "0", "-", "1">>

DpkgOutputs ==
    { <<>>,
      << <<"Package:">>, <<"postgresql">> >>,
      << <<"Version:">> >>,
      << <<"Package:">>, <<"postgresql">>, <<"Version:">>, V16_6_0 >>,
      << <<"Version:">>, V16_6 >>,
      << <<"Version:">>, V16_6_1 >>,
      << <<"Version:">>, V16_6_0_1 >>,
      << <<"Version:">>, V15_6_0, <<"Version:">>, V16_6_0 >> }

InstallerCalls ==
    [db_type : {"ttdb", "pgdg"},
     version : {V16_6_0, V16_6},
     package_path : {NoPackage, "package.deb"},
     exit_code : {0, 1},
     output : DpkgOutputs]

\* re.search(r'Version:\s*(\S+)', output): the word after the first
\* 'Version:' that has one; <<>> stands for no match.
search_version(output) ==
    LET at == {k \in 1..(Len(output) - 1) : output[k] = <<"Version:">>}
    IN  IF at = {} THEN <<>>
        ELSE output[(CHOOSE k \in at : \A j \in at : k <= j) + 1]

\* package_version.split('-')[0]
SplitHyphenHead(s) ==
    IF \A k \in 1..Len(s) : s[k] # "-" THEN s
    ELSE SubSeq(s, 1, (CHOOSE k \in 1..Len(s) :
                           s[k] = "-" /\ \A j \in 1..(k - 1) : s[j] # "-") - 1)

\* verify_package_version comparing the part before the hyphen for ttdb too.
version_matches_prefix(package_version, version) ==
    SplitHyphenHead(package_version) = version.version

\* verify_package_version: the comparison with the expected version.
version_matches(package_version, version) ==
    IF version.db_type = "pgdg"
    THEN SplitHyphenHead(package_version) = version.version
    ELSE package_version = version.version

InstallerInit ==
    /\ manifest \in { m \in Manifests : m.steps = <<>> /\ ~Truthy(m.pre_scripts)
                                        /\ ~Truthy(m.initial_pre_scripts) }
    /\ state = NoneState
    /\ idx = 0
    /\ pc = "run_db_installer"
    /\ i = 0
    /\ stage = ""
    /\ scripts = NoScripts
    /\ disk = [p \in DataDirs |-> Absent]
    /\ running = {}
    /\ log = <<>>
    /\ at_call = [state |-> NoneState, disk |-> disk]
    /\ error = NoError
    /\ logfile = NoLogFile
    /\ files = NoFiles
    /\ container = "started"
    /\ call \in { c \in InstallerCalls :
                    /\ DbVersion_create(c.version, SE, c.db_type).err = ""
                    /\ c.package_path = NoPackage => c.exit_code = 0 /\ c.output = <<>> }
    /\ ret = DbVersion_create(call.version, SE, call.db_type).v

\* run_db_installer up to its command: with a package file the package is
\* verified first.
run_db_installer_begin ==
    /\ pc = "run_db_installer"
    /\ pc' = IF call.package_path # NoPackage THEN "verify_package_version" ELSE "installer"
    /\ UNCHANGED <<manifest, call, ret, logfile, files, container, state, idx, i, stage,
                   scripts, disk, running, log, at_call, error>>

\* verify_package_version: dpkg -I without the check of the exit status, then
\* the checks of the function itself.
verify_package_version ==
    /\ pc = "verify_package_version"
    /\ LET fn == "verify_package_version"
           e == [Cmd(fn, "dpkg", <<"-I", call.package_path>>, NoneDb)
                    EXCEPT !.out = call.output]
           package_version == search_version(call.output)
       IN  /\ log' = Append(log, Exited(e, call.exit_code))
           /\ IF call.exit_code # 0
              THEN /\ pc' = "aborted"
                   /\ error' = Error("RuntimeError", "Failed to inspect package", "dpkg")
              ELSE IF package_version = <<>>
              THEN /\ pc' = "aborted"
                   /\ error' = Error("RuntimeError", "Failed to parse version", "dpkg")
              ELSE IF ~version_matches(package_version, ret)
              THEN /\ pc' = "aborted"
                   /\ error' = Error("RuntimeError", "Package version does not match", "dpkg")
              ELSE /\ pc' = "installer"
                   /\ error' = error
    /\ UNCHANGED <<manifest, call, ret, logfile, files, container, state, idx, i, stage,
                   scripts, disk, running, at_call>>

\* The command run_db_installer builds.
installer_command(fn, db_type, version, package_path) ==
    LET db == Database(version, NoneBin, env.new_db)
        installer == IF db_type = "pgdg" THEN "pgdg_installer" ELSE "db_installer"
    IN  IF package_path # NoPackage
        THEN Cmd(fn, installer, <<installer, "--from-file", package_path>>, db)
        ELSE IF db_type = "pgdg"
        THEN Cmd(fn, installer, <<installer, "--maintenance-version", "--install-path">>, db)
        ELSE run_db_installer(fn, db)

\* run_db_installer: the installer runs; its failure is logged and raised again.
run_db_installer_shell ==
    /\ pc = "installer"
    /\ shell(installer_command("run_db_installer", call.db_type, ret, call.package_path),
             "returned", 0, <<Return("run_db_installer")>>)
    /\ UNCHANGED <<manifest, call, ret, logfile, files, container, state, idx, stage, scripts,
                   at_call>>

InstallerNext ==
    \/ run_db_installer_begin
    \/ verify_package_version
    \/ run_db_installer_shell

SpecInstaller == InstallerInit /\ [][InstallerNext]_vars

(***************************************************************************)
(* The two normalisations of a script list on their own: the runner's      *)
(* extract_plain_script_list and iter_script_list of check_scripts_exist,  *)
(* each applied to a name given as a plain string and to the same name     *)
(* given as a one-element list.                                            *)
(***************************************************************************)
\* The names handed over: .sql and shell scripts, and the empty string.
ScriptNames ==
    { <<"a", ".sql">>, <<"a", ".sh">>, <<"b", ".sql">>, <<"dir/c", ".sh">> }

ListCalls == [name : ScriptNames \cup {EmptyName}, scripts_dir : SUBSET ScriptNames]

\* A manifest without steps whose only scripts are its pre_scripts.
OnlyPreScripts(s) ==
    [pre_scripts |-> s, post_scripts |-> NoScripts, verifiers |-> NoScripts, steps |-> <<>>]

ListsInit ==
    /\ manifest \in { m \in Manifests : m.steps = <<>> /\ ~Truthy(m.pre_scripts)
                                        /\ ~Truthy(m.initial_pre_scripts) }
    /\ state = NoneState
    /\ idx = 0
    /\ pc = "extract_lists"
    /\ i = 0
    /\ stage = ""
    /\ scripts = NoScripts
    /\ disk = [p \in DataDirs |-> Absent]
    /\ running = {}
    /\ log = <<>>
    /\ at_call = [state |-> NoneState, disk |-> disk]
    /\ error = NoError
    /\ logfile = NoLogFile
    /\ files = NoFiles
    /\ container = "started"
    /\ call \in ListCalls
    /\ ret = [run_str |-> <<>>, run_list |-> <<>>, any_str |-> FALSE, any_list |-> FALSE,
              check_str |-> <<>>, check_list |-> <<>>,
              missing_str |-> NoError, missing_list |-> NoError]

\* run_scripts: `if not scripts` and extract_plain_script_list(scripts), for
\* the name as a string and as a one-element list.
extract_lists ==
    /\ pc = "extract_lists"
    /\ LET as_str == StrScript(call.name)
           as_list == ListScripts(<<call.name>>)
       IN  ret' = [ret EXCEPT !.any_str = Truthy(as_str),
                              !.any_list = Truthy(as_list),
                              !.run_str = IF Truthy(as_str)
                                          THEN extract_plain_script_list(as_str) ELSE <<>>,
                              !.run_list = IF Truthy(as_list)
                                           THEN extract_plain_script_list(as_list) ELSE <<>>]
    /\ pc' = "iter_lists"
    /\ UNCHANGED <<manifest, call, logfile, files, container, state, idx, i, stage, scripts,
                   disk, running, log, at_call, error>>

\* check_scripts_exist: iter_script_list(scripts) and the scripts reported
\* missing, for the name as a string and as a one-element list.
iter_lists ==
    /\ pc = "iter_lists"
    /\ LET as_str == StrScript(call.name)
           as_list == ListScripts(<<call.name>>)
       IN  ret' = [ret EXCEPT
                      !.check_str = iter_script_list(as_str),
                      !.check_list = iter_script_list(as_list),
                      !.missing_str = check_scripts_exist(call.scripts_dir,
                                                          OnlyPreScripts(as_str)),
                      !.missing_list = check_scripts_exist(call.scripts_dir,
                                                           OnlyPreScripts(as_list))]
    /\ pc' = "returned"
    /\ UNCHANGED <<manifest, call, logfile, files, container, state, idx, i, stage, scripts,
                   disk, running, log, at_call, error>>

ListsNext ==
    \/ extract_lists
    \/ iter_lists

SpecLists == ListsInit /\ [][ListsNext]_vars

(***************************************************************************)
(* get_bin_dir on its own, for TTDB and PGDG versions (and a version of    *)
(* another db_type), with and without a package, and for everything        *)
(* reading the install-path file can give.                                 *)
(***************************************************************************)
BinDirVersions ==
    LET made == { DbVersion_create(V16_6_0, SE, "ttdb").v,
                  DbVersion_create(V15_8_0, SE, "ttdb").v,
                  DbVersion_create(V16_6_0, NoneEdition, "pgdg").v,
                  DbVersion_create(V15_8_0, NoneEdition, "pgdg").v }
    IN  made \cup { [v EXCEPT !.db_type = "other"] : v \in made }

\* What `cat` of the install-path file gives: shell raising, cat failing, and
\* cat printing nothing, whitespace only, or a path with whitespace around it.
CatResults ==
    { [raised |-> TRUE, exit_code |-> 1, output |-> <<>>],
      [raised |-> FALSE, exit_code |-> 1, output |-> <<"cat: No such file", "\r\n">>],
      [raised |-> FALSE, exit_code |-> 1, output |-> <<"/usr/lib/postgresql/16", "\r\n">>] }
    \cup { [raised |-> FALSE, exit_code |-> 0, output |-> o] :
             o \in { <<>>, <<"\r\n">>, <<" ", "\r\n">>,
                     <<"/usr/lib/postgresql/16", "\r\n">>,
                     <<" ", "/opt/pg", "\r\n">> } }

BinDirCalls ==
    [version : BinDirVersions, package_path : {NoPackage, "/tmp/packages/pg.deb"},
     result : CatResults]

BinDirInit ==
    /\ manifest \in { m \in Manifests : m.steps = <<>> /\ ~Truthy(m.pre_scripts)
                                        /\ ~Truthy(m.initial_pre_scripts) }
    /\ state = NoneState
    /\ idx = 0
    /\ pc = "get_bin_dir"
    /\ i = 0
    /\ stage = ""
    /\ scripts = NoScripts
    /\ disk = [p \in DataDirs |-> Absent]
    /\ running = {}
    /\ log = <<>>
    /\ at_call = [state |-> NoneState, disk |-> disk]
    /\ error = NoError
    /\ logfile = NoLogFile
    /\ files = NoFiles
    /\ container = "started"
    /\ call \in BinDirCalls
    /\ ret = [err |-> "", path |-> NoneBin]

\* get_bin_dir: docker_manager.shell("cat", file_path, check_code=False)
read_install_path ==
    /\ pc = "get_bin_dir"
    /\ i = 0
    /\ reads_install_path(call.version, call.package_path)
    /\ log' = Append(log, [Cmd("get_bin_dir", "cat", install_path_file(call.version), NoneDb)
                              EXCEPT !.ok = ~call.result.raised,
                                     !.code = call.result.exit_code,
                                     !.out = call.result.output])
    /\ i' = 1
    /\ UNCHANGED <<manifest, call, ret, logfile, files, container, state, idx, pc, stage,
                   scripts, disk, running, at_call, error>>

\* get_bin_dir returning the path, or raising ValueError.
return_bin_dir ==
    /\ pc = "get_bin_dir"
    /\ i = 1 \/ ~reads_install_path(call.version, call.package_path)
    /\ ret' = get_bin_dir(call.version, call.package_path, call.result)
    /\ pc' = IF ret'.err = "" THEN "returned" ELSE "raised"
    /\ UNCHANGED <<manifest, call, logfile, files, container, state, idx, i, stage, scripts,
                   disk, running, log, at_call, error>>

BinDirNext ==
    \/ read_install_path
    \/ return_bin_dir

SpecBinDir == BinDirInit /\ [][BinDirNext]_vars

(***************************************************************************)
(* Properties.                                                             *)
(***************************************************************************)
IsCmd(e) == e.kind = "cmd"
IsReturn(e, fn) == e.kind = "return" /\ e.fn = fn

\* A command that removes, moves, creates or initialises a data directory.
TouchesDataDir(e) ==
    /\ IsCmd(e)
    /\ e.op \in {"rm", "mv", "mkdir", "initdb"}
    /\ \E a \in 1..Len(e.args) : e.args[a] \in DataDirs

\* The version a step of the manifest installs.
StepVersion(k) ==
    DbVersion_create(manifest.steps[k].db_version, manifest.steps[k].db_edition,
                     manifest.db_type).v

InitialVersion ==
    DbVersion_create(manifest.db_version, manifest.db_edition, manifest.db_type).v

\* The entries an action appends to the log.
Appended == (Len(log) + 1)..Len(log')

\* C1: steps are processed in manifest order and one at a time.  The log
\* starts in create_initial_state (step 0) and the step number of an entry
\* appended to it is that of the entry before, or one more: it is one more
\* exactly where prepare_step issues its first command, and what precedes that
\* command is the completion of create_initial_state (before step 1) or the
\* completion of run_step of the step before, itself preceded by the completion
\* of run_verifier.  The version prepare_step installs is that of the
\* manifest's step of that number.
C1_StepsInOrder ==
    [][\A j \in Appended :
          LET l == log'
          IN  /\ j = 1 => l[j].step = 0
              /\ l[j].fn = "prepare_step" =>
                     /\ l[j].step \in 1..Len(manifest.steps)
                     /\ j > 1
                     /\ l[j].op = "db_installer" =>
                            l[j].ver = VersionStr(StepVersion(l[j].step))
              /\ j > 1 =>
                     \/ l[j].step = l[j - 1].step
                     \/ /\ l[j].step = l[j - 1].step + 1
                        /\ IsCmd(l[j]) /\ l[j].fn = "prepare_step"
                        /\ IF l[j - 1].step = 0
                           THEN IsReturn(l[j - 1], "create_initial_state")
                           ELSE /\ IsReturn(l[j - 1], "run_step")
                                /\ j > 2
                                /\ IsReturn(l[j - 2], "run_verifier")
                                /\ l[j - 2].step = l[j - 1].step]_vars

\* The second step of a manifest is being prepared.
C1_Witness ==
    \E j \in 1..Len(log) : IsCmd(log[j]) /\ log[j].fn = "prepare_step" /\ log[j].step = 2

\* An error has been raised, or a command has exited with a non-zero status.
Failed == error # NoError \/ \E j \in 1..Len(log) : ~log[j].ok

C3_PrepareStepRoles ==
    pc = "run_step" =>
        /\ state.old_db.version = at_call.state.new_db.version
        /\ state.old_db.version = IF idx = 1 THEN InitialVersion ELSE StepVersion(idx - 1)
        /\ state.old_db.bin_path = at_call.state.new_db.bin_path
        /\ state.old_db.data_path = env.old_db
        /\ disk[env.old_db] = at_call.disk[at_call.state.new_db.data_path]
        /\ disk[env.old_db].cluster
        /\ state.new_db = Database(StepVersion(idx), get_bin_dir(StepVersion(idx), NoPackage, NoResult).path, env.new_db)
        /\ ~disk[env.new_db].cluster
        /\ \A j \in 1..Len(log) : log[j].step = idx => log[j].op # "initdb"
        /\ state.step = manifest.steps[idx]

\* The second prepare_step of a run has ended.
C3_Witness == pc = "run_step" /\ idx = 2

\* C4 as the spec states it: after prepare_step, old_db has the data path that
\* new_db had, and new_db the data path that old_db had.
C4_PathsRelabelled ==
    pc = "run_step" =>
        /\ state.old_db.data_path = at_call.state.new_db.data_path
        /\ state.new_db.data_path = at_call.state.old_db.data_path

\* C4 as the code has it: prepare_step moves the directory, not the labels.
\* After it old_db is at the old data path as before, which now holds what the
\* new data path held, and new_db is at the new data path as before; the two
\* instances hold the two data paths of the environment, one each.
C4_PathsConserved ==
    pc = "run_step" =>
        /\ state.old_db.data_path = at_call.state.old_db.data_path
        /\ state.new_db.data_path = at_call.state.new_db.data_path
        /\ disk[state.old_db.data_path] = at_call.disk[at_call.state.new_db.data_path]
        /\ {state.old_db.data_path, state.new_db.data_path} = DataDirs
        /\ state.old_db.data_path # state.new_db.data_path

\* A prepare_step has ended with the moved cluster in the old data directory.
C4_Witness == pc = "run_step" /\ disk[env.old_db].cluster /\ ~disk[env.new_db].exists

\* C5: a minor step whose target major differs from the major of the old
\* instance fails with a ValueError before any directory mutation: when that
\* error is raised, no command of the step has removed, moved, created or
\* initialised a data directory.
C5_MinorMismatchBeforeMutation ==
    (pc = "aborted" /\ error.msg = "Minor upgrade: major mismatch") =>
        /\ error.type = "ValueError"
        /\ \A j \in 1..Len(log) :
               (log[j].step = idx /\ log[j].ok) => ~TouchesDataDir(log[j])

(***************************************************************************)
(* The stages of one step, as the log shows them.                          *)
(***************************************************************************)
StepType(k) == manifest.steps[k].type

\* The version of the old instance while step k runs.
OldVersion(k) == IF k = 1 THEN InitialVersion ELSE StepVersion(k - 1)

\* A command: program, arguments and the version of the instance it runs for.
Expect(op, args, v) == [op |-> op, args |-> args, ver |-> v]

\* The number of command l[j] among the commands its method has issued in
\* this stage of the step.
PositionIn(l, j) ==
    1 + Cardinality({a \in 1..(j - 1) :
                        /\ IsCmd(l[a])
                        /\ l[a].fn = l[j].fn
                        /\ l[a].step = l[j].step
                        /\ l[a].stage = l[j].stage})

\* Command l[j] is the one `expected` has at its position, and unless it is
\* the first its method issues, the entry before it is the command before it,
\* which has succeeded.
IssuedInOrder(l, j, expected) ==
    LET m == PositionIn(l, j)
    IN  /\ m <= Len(expected)
        /\ l[j].op = expected[m].op
        /\ l[j].args = expected[m].args
        /\ l[j].ver = expected[m].ver
        /\ m > 1 =>
               /\ IsCmd(l[j - 1]) /\ l[j - 1].ok
               /\ l[j - 1].fn = l[j].fn
               /\ l[j - 1].step = l[j].step

\* A script run by run_scripts, and the script's name.
IsScript(e) == IsCmd(e) /\ e.fn = "run_scripts" /\ e.op \in {"psql", "bash"}
ScriptName(e) == IF e.op = "psql" THEN SubSeq(e.args, 2, 3) ELSE SubSeq(e.args, 1, 2)

\* The stage of a step an entry of the log belongs to: 0 prepare_step,
\* 1 initialize_db_cluster, 2 pre-step scripts, 3 the strategy, 4 post-step
\* scripts, 5 verifier and the end of run_step.
StageOf(e) ==
    IF e.fn = "prepare_step" THEN 0
    ELSE IF e.fn = "initialize_db_cluster" THEN 1
    ELSE IF e.stage = "pre" \/ IsReturn(e, "run_pre_step") THEN 2
    ELSE IF e.fn \in {"run_minor", "run_pg_upgrade", "run_pg_binary", "run_pg_dumpall"} THEN 3
    ELSE IF e.stage = "post" \/ IsReturn(e, "run_post_step") THEN 4
    ELSE 5

\* The entry with which a stage has finished without error.
Finishes(type, e) ==
    \/ IsReturn(e, "prepare_step")
    \/ IsReturn(e, "initialize_db_cluster")
    \/ IsReturn(e, "run_pre_step")
    \/ IsReturn(e, "run_post_step")
    \/ type = "minor" /\ IsCmd(e) /\ e.fn = "run_minor" /\ e.ok
          /\ e.op = "pg_ctl" /\ e.args[3] = "stop"
    \/ type = "pg_upgrade" /\ IsReturn(e, "run_pg_upgrade")
    \/ type = "pg_dumpall" /\ IsReturn(e, "run_pg_dumpall")

StageAfter(type, p) == IF type = "minor" /\ p = 0 THEN 2 ELSE p + 1

\* Entry j of the log is in the stage of the entry before it, unless that
\* entry finished its stage: then it is in the stage that comes next.
InStageOrder(l, j) ==
    (j > 1 /\ l[j - 1].step = l[j].step) =>
        LET type == StepType(l[j].step)
            p == StageOf(l[j - 1])
        IN  StageOf(l[j]) = IF Finishes(type, l[j - 1]) THEN StageAfter(type, p) ELSE p

\* C6: a minor step with matching majors issues, in this order, the removal of
\* the new data directory, the move of the old data directory to the new path,
\* mkdir, chmod 0700 and chown postgres of the old data directory, one start
\* and one stop of the new instance; its post-step scripts come only after that
\* stop has succeeded; no command of the step is initdb, pg_upgrade or
\* pg_dumpall.  (Stated of every entry appended to the log in a minor step.)
C6_MinorCommands ==
    [][\A j \in Appended :
          LET l == log'
              k == l[j].step
              new == VersionStr(StepVersion(k))
          IN  (k >= 1 /\ StepType(k) = "minor") =>
                  /\ InStageOrder(l, j)
                  /\ l[j].op \notin {"initdb", "pg_upgrade", "pg_dumpall"}
                  /\ l[j].fn = "run_minor" =>
                         /\ OldVersion(k).major = StepVersion(k).major
                         /\ IssuedInOrder(l, j,
                                << Expect("rm", <<"-rf", env.new_db>>, <<>>),
                                   Expect("mv", <<env.old_db, env.new_db>>, <<>>),
                                   Expect("mkdir", <<"-p", env.old_db>>, <<>>),
                                   Expect("chmod", <<"0700", env.old_db>>, <<>>),
                                   Expect("chown", <<"postgres:postgres", env.old_db>>, <<>>),
                                   Expect("pg_ctl", <<"-D", env.new_db, "start">>, new),
                                   Expect("pg_ctl", <<"-D", env.new_db, "stop">>, new) >>)]_vars

\* A post-step script of a minor step has run.
C6_Witness ==
    \E j \in 1..Len(log) :
        /\ log[j].step >= 1 /\ StepType(log[j].step) = "minor"
        /\ IsScript(log[j]) /\ log[j].stage = "post" /\ log[j].ok

\* initialize_db_cluster has returned only after an initdb of the step's
\* target version on the new data path succeeded.
InitdbOnNewPath(l, j) ==
    IsReturn(l[j], "initialize_db_cluster") =>
        /\ j > 1
        /\ l[j - 1].op = "initdb" /\ l[j - 1].ok
        /\ l[j - 1].step = l[j].step
        /\ l[j - 1].args = <<"-D", env.new_db>>
        /\ l[j - 1].ver = VersionStr(StepVersion(l[j].step))

\* C7: a pg_upgrade step runs its stages in order, each only after the one
\* before has finished: initdb on the new data path, the pre-step scripts, the
\* copy of postgresql.conf from the old to the new data directory, pg_upgrade
\* with -b old binaries, -B new binaries, -d old data, -D new data, then the
\* post-step scripts, then the verifier scripts.  (Stated of every entry
\* appended to the log in a pg_upgrade step.)
C7_BinaryUpgradeOrder ==
    [][\A j \in Appended :
          LET l == log'
              k == l[j].step
              e == l[j]
          IN  (k >= 1 /\ StepType(k) = "pg_upgrade") =>
                  /\ InStageOrder(l, j)
                  /\ InitdbOnNewPath(l, j)
                  /\ (e.fn = "run_pg_upgrade" /\ StageOf(l[j - 1]) # 3) =>
                         /\ e.op = "cp"
                         /\ e.args = <<env.old_db, "postgresql.conf", env.new_db>>
                  /\ (e.fn = "run_pg_upgrade" /\ StageOf(l[j - 1]) = 3) =>
                         /\ l[j - 1].ok
                         /\ e.op # "cp"
                         /\ l[j - 1].op = "cp" <=> e.op = "pg_upgrade"
                  /\ e.op = "pg_upgrade" =>
                         /\ e.ver = VersionStr(StepVersion(k))
                         /\ e.args = <<"-b">> \o get_bin_dir(OldVersion(k), NoPackage, NoResult).path
                                     \o <<"-B">> \o get_bin_dir(StepVersion(k), NoPackage, NoResult).path
                                     \o <<"-d", env.old_db, "-D", env.new_db>>]_vars

\* A verifier script of a pg_upgrade step has run, after pg_upgrade succeeded.
C7_Witness ==
    \E j \in 1..Len(log) :
        /\ log[j].step >= 1 /\ StepType(log[j].step) = "pg_upgrade"
        /\ IsScript(log[j]) /\ log[j].stage = "verifier" /\ log[j].ok

\* The file run_pg_dumpall dumps step k's old instance into.
DumpOf(k) == <<env.tmp_dir, "dump_">> \o VersionStr(OldVersion(k)) \o <<".sql">>

\* C8: a pg_dumpall step runs its stages in order: initdb on the new data
\* path, the pre-step scripts, then start of the old instance, pg_dumpall into
\* a file under the temp directory, stop of the old instance, copy of
\* postgresql.conf, postgresql.auto.conf and pg_hba.conf from old to new, start
\* of the new instance, psql loading the dump file, stop of the new instance,
\* then the post-step scripts and the verifier.  (Stated of every entry
\* appended to the log in a pg_dumpall step.)
C8_DumpReloadOrder ==
    [][\A j \in Appended :
          LET l == log'
              k == l[j].step
              old == VersionStr(OldVersion(k))
              new == VersionStr(StepVersion(k))
              copy(f) == Expect("cp", <<env.old_db, f, env.new_db, f>>, <<>>)
          IN  (k >= 1 /\ StepType(k) = "pg_dumpall") =>
                  /\ InStageOrder(l, j)
                  /\ InitdbOnNewPath(l, j)
                  /\ IsReturn(l[j], "run_pg_dumpall") =>
                         /\ IsCmd(l[j - 1]) /\ l[j - 1].ok
                         /\ l[j - 1].fn = "run_pg_dumpall"
                         /\ PositionIn(l, j - 1) = 9
                  /\ (IsCmd(l[j]) /\ l[j].fn = "run_pg_dumpall") =>
                         /\ DumpOf(k)[1] = env.tmp_dir
                         /\ IssuedInOrder(l, j,
                                << Expect("pg_ctl", <<"-D", env.old_db, "start">>, old),
                                   Expect("pg_dumpall", <<"-f">> \o DumpOf(k), new),
                                   Expect("pg_ctl", <<"-D", env.old_db, "stop">>, old),
                                   copy("postgresql.conf"),
                                   copy("postgresql.auto.conf"),
                                   copy("pg_hba.conf"),
                                   Expect("pg_ctl", <<"-D", env.new_db, "start">>, new),
                                   Expect("psql", <<"-f">> \o DumpOf(k), new),
                                   Expect("pg_ctl", <<"-D", env.new_db, "stop">>, new) >>)]_vars

\* A pg_dumpall step has run to the end of its verifier stage, the dump loaded.
C8_Witness ==
    /\ Len(log) > 0
    /\ IsReturn(log[Len(log)], "run_step")
    /\ StepType(idx) = "pg_dumpall"
    /\ \E j \in 1..Len(log) :
           /\ log[j].step = idx /\ log[j].fn = "run_pg_dumpall"
           /\ log[j].op = "psql" /\ log[j].ok

\* The scripts of the verifier stage of step k.
VerifiersOf(k) ==
    LET own == manifest.steps[k].verifiers
        fallback == manifest.verifiers
    IN  IF own.kind # "none" /\ own.val # <<>> THEN own.val
        ELSE IF fallback.kind # "none" THEN fallback.val
        ELSE <<>>

\* C9: in every step, whatever its strategy, once the strategy and its
\* post-step scripts have completed without error the verifier stage follows,
\* and it is the step's last stage: nothing of the verifier stage is logged
\* before run_post_step has returned, run_step returns as soon as run_verifier
\* has, and nothing more is logged for the step.  The scripts the stage runs
\* are the step's verifiers if it has any, and otherwise the manifest's.
C9_VerifierLast ==
    [][/\ \A j \in Appended :
              LET l == log'
                  k == l[j].step
              IN  /\ IsReturn(l[j], "run_post_step") =>
                         /\ j = Len(l)
                         /\ pc' = "run_verifier"
                  /\ (l[j].stage = "verifier" \/ IsReturn(l[j], "run_verifier")) =>
                         /\ l[j - 1].step = k
                         /\ \/ IsReturn(l[j - 1], "run_post_step")
                            \/ l[j - 1].stage = "verifier" /\ l[j - 1].ok
                  /\ IsReturn(l[j], "run_verifier") =>
                         /\ j + 1 = Len(l)
                         /\ IsReturn(l[j + 1], "run_step")
                         /\ l[j + 1].step = k
                  /\ IsReturn(l[j], "run_step") => IsReturn(l[j - 1], "run_verifier")
                  /\ (j > 1 /\ IsReturn(l[j - 1], "run_step")) => k > l[j - 1].step
                  /\ (IsScript(l[j]) /\ l[j].stage = "verifier") =>
                         /\ PositionIn(l, j) - 1 \in 1..Len(VerifiersOf(k))
                         /\ ScriptName(l[j]) = VerifiersOf(k)[PositionIn(l, j) - 1]
       /\ pc = "run_verifier" =>
              /\ pc' = "run_scripts"
              /\ stage' = "verifier"
              /\ scripts' = IF Truthy(state.step.verifiers) THEN state.step.verifiers
                            ELSE manifest.verifiers
       /\ (pc = "run_scripts" /\ stage = "verifier" /\ pc' # "aborted") =>
              \/ pc' = "run_scripts" /\ stage' = "verifier"
              \/ pc' = "run_migration" /\ IsReturn(log'[Len(log')], "run_step")]_vars

\* A step without verifiers of its own has ended, a verifier of the manifest
\* having been the script of its verifier stage.
C9_Witness ==
    /\ Len(log) > 0
    /\ IsReturn(log[Len(log)], "run_step")
    /\ ~Truthy(manifest.steps[idx].verifiers)
    /\ \E j \in 1..Len(log) :
           /\ IsScript(log[j]) /\ log[j].step = idx /\ log[j].stage = "verifier"
           /\ ScriptName(log[j]) = manifest.verifiers.val[1]

\* C10: for a minor step the post-step scripts that run are the manifest's
\* initial_post_scripts if it has any, and otherwise the manifest's post_scripts.
C10_MinorPostScripts ==
    (pc = "run_scripts" /\ stage = "post" /\ state.step.type = "minor") =>
        scripts = IF Truthy(manifest.initial_post_scripts)
                  THEN manifest.initial_post_scripts
                  ELSE manifest.post_scripts

\* The names of a script list, in order; none for an absent or empty list.
NamesOf(s) == IF s.kind = "none" THEN <<>> ELSE s.val

\* A script list that is present: neither None nor empty.
Present(s) == s.kind # "none" /\ s.val # <<>>

\* The script list a stage takes: `first` if present, otherwise `second`.
Preferred(first, second) == IF Present(first) THEN first ELSE second

\* Script l[j] of a stage is the script `names` has at its place: the start of
\* the instance is the first command of the stage, the scripts follow it.
IsNthScript(l, j, names) ==
    /\ PositionIn(l, j) - 1 \in 1..Len(names)
    /\ ScriptName(l[j]) = names[PositionIn(l, j) - 1]

ScriptsFor(rec, stg) ==
    IF stg = "pre" THEN rec.pre_scripts
    ELSE IF stg = "post" THEN rec.post_scripts
    ELSE rec.verifiers

\* The stage whose scripts method fn runs.
StageRunBy(fn) ==
    IF fn = "run_pre_step" THEN "pre"
    ELSE IF fn = "run_post_step" THEN "post"
    ELSE "verifier"

\* The scripts of a stage of step k under the override rule: the step's list
\* if present (an empty list counts as absent), otherwise the manifest's.
OverrideOf(k, stg) ==
    NamesOf(Preferred(ScriptsFor(manifest.steps[k], stg), ScriptsFor(manifest, stg)))

\* C12: for pg_upgrade and pg_dumpall steps, the scripts run in the pre, post
\* and verifier stage are exactly the step's list of that category when the
\* step has one, and exactly the manifest's list of that category otherwise,
\* never both.  The stage method hands that list to run_scripts; each script
\* run is the one the list has at that place; and when the stage method
\* returns, the whole list has run (or no command at all, for an empty list).
C12_StepOverridesManifest ==
    [][/\ (pc \in {"run_pre_step", "run_post_step", "run_verifier"}
              /\ state.step.type \in {"pg_upgrade", "pg_dumpall"}) =>
              /\ pc' = "run_scripts" /\ stage' = StageRunBy(pc)
              /\ scripts' = Preferred(ScriptsFor(state.step, StageRunBy(pc)),
                                      ScriptsFor(manifest, StageRunBy(pc)))
       /\ \A j \in Appended :
              LET l == log'
                  k == l[j].step
              IN  (k >= 1 /\ StepType(k) \in {"pg_upgrade", "pg_dumpall"}) =>
                      /\ (IsScript(l[j]) /\ l[j].stage # "") =>
                             IsNthScript(l, j, OverrideOf(k, l[j].stage))
                      /\ (l[j].kind = "return"
                              /\ l[j].fn \in {"run_pre_step", "run_post_step", "run_verifier"}) =>
                             LET stg == StageRunBy(l[j].fn)
                                 n == Len(OverrideOf(k, stg))
                             IN  IF n = 0
                                 THEN l[j - 1].stage # stg
                                 ELSE /\ l[j - 1].stage = stg /\ l[j - 1].step = k
                                      /\ l[j - 1].ok
                                      /\ PositionIn(l, j - 1) = n + 2]_vars

\* The post stage of a pg_upgrade or pg_dumpall step has been completed, the
\* step and the manifest both having post scripts.
C12_Witness ==
    \E j \in 1..Len(log) :
        /\ IsReturn(log[j], "run_post_step")
        /\ StepType(log[j].step) \in {"pg_upgrade", "pg_dumpall"}
        /\ Present(manifest.steps[log[j].step].post_scripts)
        /\ Present(manifest.post_scripts)
        /\ log[j - 1].stage = "post"

\* C13: every hook script executes while the new instance is started.  With a
\* non-empty list, the first command run_scripts issues is the start of the new
\* instance, each script is issued after the start (or the script before it)
\* has succeeded and while the instance is running, the stop of the instance is
\* issued after the last script has succeeded, and the stage returns after the
\* stop.  With an empty or absent list run_scripts issues no command at all.
C13_ScriptsBracketed ==
    [][/\ \A j \in Appended :
              LET l == log'
                  e == l[j]
                  n == Len(NamesOf(scripts))
                  new == VersionStr(StepVersion(e.step))
              IN  /\ (IsCmd(e) /\ e.fn = "run_scripts") =>
                         /\ e.stage = stage
                         /\ Present(scripts)
                         /\ PositionIn(l, j) \in 1..(n + 2)
                         /\ PositionIn(l, j) = 1 <=>
                                (e.op = "pg_ctl" /\ e.args = <<"-D", env.new_db, "start">>)
                         /\ PositionIn(l, j) = n + 2 <=>
                                (e.op = "pg_ctl" /\ e.args = <<"-D", env.new_db, "stop">>)
                         /\ PositionIn(l, j) \in 2..(n + 1) <=> IsScript(e)
                         /\ e.ver = new
                         /\ PositionIn(l, j) > 1 =>
                                /\ l[j - 1].fn = "run_scripts" /\ l[j - 1].ok
                                /\ l[j - 1].stage = stage /\ l[j - 1].step = e.step
                         /\ IsScript(e) => env.new_db \in running
                  /\ (e.kind = "return"
                          /\ e.fn \in {"run_pre_step", "run_post_step", "run_verifier"}) =>
                         /\ StageRunBy(e.fn) = stage
                         /\ IF Present(scripts)
                            THEN /\ l[j - 1].stage = stage /\ l[j - 1].ok
                                 /\ l[j - 1].op = "pg_ctl" /\ l[j - 1].args[3] = "stop"
                                 /\ env.new_db \notin running'
                            ELSE /\ l[j - 1].stage # stage
                                 /\ running' = running
       /\ (pc = "run_scripts" /\ ~Present(scripts)) =>
              /\ \A j \in Appended : log'[j].kind = "return"
              /\ running' = running
              /\ disk' = disk]_vars

\* A stage of two scripts has been run: start, two scripts, stop, return.
C13_Witness ==
    \E j \in 2..Len(log) :
        /\ IsReturn(log[j], "run_verifier")
        /\ log[j - 1].stage = "verifier"
        /\ log[j - 1].op = "pg_ctl"
        /\ PositionIn(log, j - 1) = 4

\* A script that has failed: it exited with a non-zero status, or it is the
\* psql script in whose log run_sql_script has found an error.
ScriptFailed(e, err) ==
    /\ IsScript(e)
    /\ \/ ~e.ok
       \/ err.msg = "Error found during execution"

\* C14: the scripts of a stage run in list order, and the first failing script
\* aborts the whole run.  Each script run is the one the list handed to
\* run_scripts has at that place, issued after the script before it has
\* succeeded; a script that fails is the last entry of the log, with the run
\* aborted on an error; and from the aborted run nothing follows: no later
\* script, stage or step.
C14_ScriptsInOrderFailFast ==
    [][/\ pc # "aborted"
       /\ \A j \in Appended :
              LET l == log'
                  e == l[j]
              IN  /\ IsScript(e) =>
                         /\ IsNthScript(l, j, NamesOf(scripts))
                         /\ l[j - 1].ok /\ l[j - 1].stage = e.stage /\ l[j - 1].step = e.step
                         /\ error = NoError
                  /\ ScriptFailed(e, error') =>
                         /\ j = Len(l)
                         /\ pc' = "aborted"
                         /\ error'.type = "RuntimeError"
                         /\ idx' = idx /\ stage' = stage
                  /\ j > 1 => ~ScriptFailed(l[j - 1], error)]_vars

\* The first script of a list of two has failed in the first of two steps, and
\* the run has ended there.
C14_Witness ==
    /\ pc = "aborted"
    /\ Len(log) > 0
    /\ IsScript(log[Len(log)]) /\ ~log[Len(log)].ok
    /\ PositionIn(log, Len(log)) = 2
    /\ Len(NamesOf(scripts)) = 2
    /\ idx = 1 /\ Len(manifest.steps) = 2

\* C15: run_sql_script fails with a script-execution error whenever the psql
\* log file of the instance has a line with the marker 'ERROR:', although psql
\* exited with status zero; when the log file does not exist it logs a warning
\* and succeeds.  (When psql exits with another status the command error is
\* raised and the log is not scanned; a log file without the marker lets the
\* call succeed without a warning.)
C15_SqlErrorMarker ==
    [][/\ pc = "run_sql_script" =>
              LET e == log'[Len(log')]
              IN  /\ Len(log') = Len(log) + 1
                  /\ IsCmd(e) /\ e.op = "psql"
                  /\ IF e.ok
                     THEN pc' = "run_sql_script_scan" /\ error' = NoError
                     ELSE /\ pc' = "aborted"
                          /\ error' = Error("RuntimeError", "Command failed", "psql")
       /\ pc = "run_sql_script_scan" =>
              LET marked == \E k \in 1..Len(logfile.lines) :
                                \E m \in 1..Len(logfile.lines[k]) :
                                    logfile.lines[k][m] = "ERROR:"
                  warned == \E j \in Appended : log'[j].kind = "warning"
              IN  /\ log[Len(log)].op = "psql" /\ log[Len(log)].ok
                  /\ logfile' = logfile
                  /\ IF logfile.exists /\ marked
                     THEN /\ pc' = "aborted"
                          /\ error'.type = "RuntimeError"
                          /\ error'.msg = "Error found during execution"
                          /\ log' = log
                     ELSE /\ pc' = "returned"
                          /\ error' = NoError
                          /\ IsReturn(log'[Len(log')], "run_sql_script")
                          /\ warned <=> ~logfile.exists]_vars

\* psql exited with status zero, and run_sql_script has failed on a line of the
\* log that has the marker after the name of the script.
C15_Witness ==
    /\ pc = "aborted"
    /\ log # <<>> /\ log[1].op = "psql" /\ log[1].ok
    /\ error.msg = "Error found during execution"
    /\ \E k \in 1..Len(logfile.lines) :
           logfile.lines[k][1] # "ERROR:" /\ logfile.lines[k][2] = "ERROR:"
    /\ \A k \in 1..Len(logfile.lines) : logfile.lines[k][1] # "ERROR:"

\* pg_upgrade has failed: the entry of the log where it did, 0 if none.
PgUpgradeFailedAt ==
    IF \E j \in 1..Len(log) : log[j].op = "pg_upgrade" /\ ~log[j].ok
    THEN CHOOSE j \in 1..Len(log) : log[j].op = "pg_upgrade" /\ ~log[j].ok
    ELSE 0

\* C16: diagnostic capture happens exactly on pg_upgrade failure.  A command of
\* run_pg_binary's capture is issued only after a failed pg_upgrade; and when
\* pg_upgrade has failed and its error has propagated, the capture has been
\* made before: mkdir -p of additionally_errors_logs, the copy of the logs of
\* pg_upgrade_output.d, and the two chmod runs over the directories and files,
\* each of them completed.
C16_CaptureOnPgUpgradeFailure ==
    /\ \A j \in 1..Len(log) :
           log[j].fn = "run_pg_binary" => (PgUpgradeFailedAt \in 1..(j - 1))
    /\ (pc = "aborted" /\ PgUpgradeFailedAt > 0) =>
           LET f == PgUpgradeFailedAt
           IN  /\ Len(log) = f + 4
               /\ \A c \in 1..4 : log[f + c].fn = "run_pg_binary" /\ log[f + c].ok
               /\ log[f + 1].op = "mkdir"
               /\ log[f + 2].op = "bash"
               /\ log[f + 3].op = "find" /\ log[f + 3].args[2] = "d"
               /\ log[f + 4].op = "find" /\ log[f + 4].args[2] = "f"

\* C17: when pg_upgrade fails, the error that reaches the caller of
\* run_pg_binary, and ends the run, is the error of the pg_upgrade command,
\* whatever the capture commands did.
C17_OriginalErrorReraised ==
    (pc = "aborted" /\ PgUpgradeFailedAt > 0) =>
        error = Error("RuntimeError", "Command failed", "pg_upgrade")

\* The scripts a manifest refers to: its pre, post and verifier scripts, its
\* initial pre and post scripts, and the pre, post and verifier scripts of
\* its steps.
ReferencedScripts ==
    LET Names(f) == {NamesOf(f)[j] : j \in 1..Len(NamesOf(f))}
    IN  UNION { Names(f) : f \in {manifest.pre_scripts, manifest.post_scripts,
                                   manifest.verifiers, manifest.initial_pre_scripts,
                                   manifest.initial_post_scripts} }
        \cup UNION { Names(manifest.steps[k].pre_scripts)
                     \cup Names(manifest.steps[k].post_scripts)
                     \cup Names(manifest.steps[k].verifiers) : k \in 1..Len(manifest.steps) }

\* C18: when a script the manifest refers to (initial pre and post scripts
\* included) is missing from the scripts directory, environment preparation
\* raises FileNotFoundError: the run never leaves prepare_environment, so the
\* container is never started and no command is issued.
C18_MissingScriptRaised ==
    (\E s \in ReferencedScripts : s \notin files.scripts)
        => /\ pc \in {"prepare_environment", "aborted"}
           /\ pc = "aborted" => error.type = "FileNotFoundError"
           /\ container = "none"
           /\ log = <<>>

\* The packages a manifest refers to: its own and those of its steps.
ReferencedPackages ==
    ({manifest.package} \cup {manifest.steps[k].package : k \in 1..Len(manifest.steps)})
    \ {NoPackage}

\* C19: when a package of the manifest or of one of its steps is missing from
\* the packages directory, the only step of the run is prepare_environment
\* raising FileNotFoundError: the container is not started and no command is
\* issued.
C19_MissingPackageRaised ==
    [][(\E pk \in ReferencedPackages : pk \notin files.packages)
           => /\ pc = "prepare_environment"
              /\ pc' = "aborted"
              /\ error'.type = "FileNotFoundError"
              /\ container' = "none"
              /\ log' = <<>>]_vars

\* A run aborted for the package of a step alone, every script being there.
C19_Witness ==
    /\ pc = "aborted"
    /\ error.msg = "Package file not found"
    /\ manifest.package \in files.packages
    /\ \E k \in 1..Len(manifest.steps) :
           /\ manifest.steps[k].package # NoPackage
           /\ manifest.steps[k].package \notin files.packages

\* C20: a version DbVersion.create rejects, in the starting version or in a
\* step, is raised as a ValueError before any destructive action: when the
\* error is raised, no command of that step has removed or moved a data
\* directory.
C20_VersionErrorBeforeDestruction ==
    (pc = "aborted" /\ error.msg = "Invalid version") =>
        /\ error.type = "ValueError"
        /\ \A j \in 1..Len(log) :
               (log[j].step = idx /\ log[j].ok)
                   => ~(TouchesDataDir(log[j]) /\ log[j].op \in {"rm", "mv"})

\* C21: exit status 127 of the installer script is taken as success: an
\* installer command of create_initial_state or prepare_step that ends with
\* 127 does not end the run.
C21_Installer127Continues ==
    [][\A j \in Appended :
          (log'[j].op = "db_installer" /\ log'[j].code = 127) => pc' # "aborted"]_vars

\* run_upgrade logs 'Migration completed successfully' when run_migration has
\* returned.
MigrationCompleted == pc = "done"

\* C22: no error is swallowed.  A step in which a command exits with a
\* non-zero status leaves an error propagating, in run_pg_binary's handler or
\* out of run_migration, and from there the run only goes on to its abort.
\* The migration completes only with no error raised, no command failed and,
\* for every step of the manifest, run_verifier and run_step returned.
C22_NoErrorSwallowed ==
    [][/\ (\E j \in Appended : ~log'[j].ok) =>
              /\ pc' \in {"run_pg_binary", "aborted"}
              /\ error' # NoError
       /\ pc \in {"run_pg_binary", "aborted"} =>
              /\ pc' \in {"run_pg_binary", "aborted"}
              /\ error' # NoError
       /\ MigrationCompleted' =>
              /\ error' = NoError
              /\ \A j \in 1..Len(log') : log'[j].ok
              /\ \A k \in 1..Len(manifest.steps) :
                     \E j \in 2..Len(log') :
                         /\ IsReturn(log'[j], "run_step") /\ log'[j].step = k
                         /\ IsReturn(log'[j - 1], "run_verifier")]_vars

\* copy_configuration_files has caught the failure of a cp in the second step
\* and the RuntimeError it raised has ended the run.
C22_Witness ==
    /\ pc = "aborted"
    /\ error.msg = "Failed to copy"
    /\ idx = 2
    /\ ~log[Len(log)].ok /\ log[Len(log)].op = "cp"

\* C23: create_initial_state installs the starting version, then removes and
\* recreates both data directories (mode 0700, owner postgres), and only then
\* runs initdb on the new data directory.  When it returns these are all the
\* commands of the run and all succeeded; state.new_db is the starting version
\* at env.new_db, which holds the cluster initdb made; state.old_db has no
\* version and its directory env.old_db is empty; state.step is unset.
C23_InitialState ==
    [][(\E j \in Appended : IsReturn(log'[j], "create_initial_state")) =>
          LET l == log'
              dirs == <<env.new_db, env.old_db>>
          IN  /\ Len(l) = 11
              /\ \A j \in 1..10 : IsCmd(l[j]) /\ l[j].ok /\ l[j].fn = "create_initial_state"
              /\ l[1].op = "db_installer" /\ l[1].ver = VersionStr(InitialVersion)
              /\ \A d \in 1..2 :
                     LET b == 4 * d - 3
                     IN  /\ l[b + 1].op = "rm" /\ l[b + 1].args = <<"-rf", dirs[d]>>
                         /\ l[b + 2].op = "mkdir" /\ l[b + 2].args = <<"-p", dirs[d]>>
                         /\ l[b + 3].op = "chmod" /\ l[b + 3].args = <<"0700", dirs[d]>>
                         /\ l[b + 4].op = "chown"
                         /\ l[b + 4].args = <<"postgres:postgres", dirs[d]>>
              /\ l[10].op = "initdb" /\ l[10].args = <<"-D", env.new_db>>
              /\ l[10].ver = VersionStr(InitialVersion)
              /\ state'.new_db.version = InitialVersion
              /\ state'.new_db.data_path = env.new_db
              /\ disk'[env.new_db] = Cluster(0, TRUE)
              /\ state'.old_db.version = NoneVersion
              /\ state'.old_db.data_path = env.old_db
              /\ disk'[env.old_db] = Empty
              /\ state'.step = NoneStep]_vars

\* create_initial_state has returned, nothing else has run yet.
C23_Witness ==
    /\ pc = "run_migration" /\ i = 1 /\ idx = 0
    /\ IsReturn(log[Len(log)], "create_initial_state")
    /\ state.new_db.data_path = env.new_db
    /\ disk[env.old_db] = Empty

\* pg_upgrade's output contains the name of the extensions script.
Mentions(out) == \E k \in 1..Len(out) : out[k] = "update_extensions.sql"

\* A start or stop of the new instance issued by pg_upgrade's own code.
UpgradeCtl(e, command) ==
    /\ IsCmd(e) /\ e.fn = "run_pg_upgrade"
    /\ e.op = "pg_ctl" /\ e.args = <<"-D", env.new_db, command>>

UpgradeDone(e) == IsCmd(e) /\ e.fn = "run_pg_upgrade" /\ e.op = "pg_upgrade" /\ e.ok

UpgradeScript(e) == IsCmd(e) /\ e.fn = "run_pg_upgrade" /\ e.op = "psql"

\* C24: in a pg_upgrade step update_extensions.sql is run if and only if the
\* output of pg_upgrade contains its name.  After a pg_upgrade whose output
\* names it the new instance is started, then the script is run, then the
\* instance is stopped and run_pg_upgrade returns (each once the command before
\* has succeeded); after a pg_upgrade whose output does not name it
\* run_pg_upgrade returns at once, with no start, script or stop.  (Stated of
\* every entry appended to the log.)
C24_ExtensionsScript ==
    [][\A j \in Appended :
          LET l == log'
              e == l[j]
          IN  j > 1 =>
                  /\ UpgradeDone(l[j - 1]) =>
                         IF Mentions(l[j - 1].out)
                         THEN UpgradeCtl(e, "start")
                         ELSE IsReturn(e, "run_pg_upgrade")
                  /\ UpgradeCtl(e, "start") => UpgradeDone(l[j - 1]) /\ Mentions(l[j - 1].out)
                  /\ UpgradeScript(e) =>
                         /\ e.args = <<"-f", "update_extensions", ".sql">>
                         /\ UpgradeCtl(l[j - 1], "start") /\ l[j - 1].ok
                  /\ (UpgradeCtl(l[j - 1], "start") /\ l[j - 1].ok) => UpgradeScript(e)
                  /\ UpgradeCtl(e, "stop") => UpgradeScript(l[j - 1]) /\ l[j - 1].ok
                  /\ (UpgradeScript(l[j - 1]) /\ l[j - 1].ok) => UpgradeCtl(e, "stop")
                  /\ (e.fn = "run_pg_upgrade" /\ e.op = "pg_ctl") =>
                         UpgradeCtl(e, "start") \/ UpgradeCtl(e, "stop")
                  /\ (UpgradeCtl(l[j - 1], "stop") /\ l[j - 1].ok) =>
                         IsReturn(e, "run_pg_upgrade")]_vars

\* run_pg_upgrade has returned after the extensions script and the stop of
\* the new instance.
C24_Witness ==
    \E j \in 4..Len(log) :
        /\ IsReturn(log[j], "run_pg_upgrade")
        /\ UpgradeCtl(log[j - 1], "stop")
        /\ UpgradeScript(log[j - 2]) /\ log[j - 2].ok
        /\ UpgradeCtl(log[j - 3], "start")

\* C25: the manifest's initial_setup_script runs right after the initial
\* database initialisation and before the first step: once a command of the
\* first step has been issued, the script has been run by psql in
\* create_initial_state's part of the run.
C25_InitialSetupScriptRuns ==
    (Truthy(manifest.initial_setup_script) /\ \E j \in 1..Len(log) : log[j].step >= 1) =>
        \E j \in 1..Len(log) :
            /\ IsCmd(log[j]) /\ log[j].step = 0
            /\ log[j].op = "psql"
            /\ log[j].args = <<"-f">> \o manifest.initial_setup_script.val[1]

\* The additional arguments of step k for a binary: the step's args if it has
\* them, otherwise the manifest's.
ArgsFor(k, binary) ==
    LET a == IF manifest.steps[k].args # NoArgs THEN manifest.steps[k].args
             ELSE manifest.args
    IN  {p[2] : p \in {q \in a : q[1] = binary}}

\* C26: the additional arguments of a step (the manifest's when the step has
\* none) are passed to the binaries run on that step: every command of a step
\* carries the arguments given for its binary.
C26_ArgsPassed ==
    \A j \in 1..Len(log) :
        (IsCmd(log[j]) /\ log[j].step >= 1) =>
            \A a \in ArgsFor(log[j].step, log[j].op) :
                \E k \in 1..Len(log[j].args) : log[j].args[k] = a

\* Version strings of the forms X.Y.Z and X.Y: groups of digits, dots between.
DotsOf(s) == {k \in 1..Len(s) : s[k] = "."}

DigitGroups(s) ==
    /\ Len(s) > 0
    /\ \A k \in 1..Len(s) : s[k] \in Digits \cup {"."}
    /\ \A k \in DotsOf(s) : k > 1 /\ k < Len(s) /\ k + 1 \notin DotsOf(s)

IsXYZ(s) == DigitGroups(s) /\ Cardinality(DotsOf(s)) = 2
IsXY(s) == DigitGroups(s) /\ Cardinality(DotsOf(s)) = 1

\* X of X.Y or X.Y.Z, and X.Y of either.
FirstDot(s) == CHOOSE k \in DotsOf(s) : \A j \in DotsOf(s) : k <= j
GroupX(s) == SubSeq(s, 1, FirstDot(s) - 1)
GroupsXY(s) ==
    IF IsXY(s) THEN s
    ELSE SubSeq(s, 1, (CHOOSE k \in DotsOf(s) : k # FirstDot(s)) - 1)

Created == pc \in {"str", "raised", "returned"}

\* C28: DbVersion.create for ttdb succeeds for a version of the form X.Y.Z
\* with a non-empty edition, and then major is X; for every other version
\* string, and when the edition is None or empty, it raises.
C28_TtdbVersions ==
    (Created /\ call.db_type = "ttdb") =>
        IF IsXYZ(call.version) /\ call.edition \notin {NoneEdition, <<>>}
        THEN ret.err = "" /\ ret.v.major = GroupX(call.version)
        ELSE ret.err # ""

\* C29: DbVersion.create for pgdg accepts X.Y and X.Y.Z; the version it stores
\* is X.Y, the major is X, and the rendering is X.Y-pgdg.
C29_PgdgVersions ==
    (Created /\ call.db_type = "pgdg" /\ (IsXY(call.version) \/ IsXYZ(call.version))) =>
        /\ ret.err = ""
        /\ ret.v.version = GroupsXY(call.version)
        /\ ret.v.major = GroupX(call.version)
        /\ pc = "returned" =>
               ret.str = GroupsXY(call.version) \o <<"-", "p", "g", "d", "g">>

\* A pgdg version with a patch component has been created and rendered.
C29_Witness ==
    /\ pc = "returned"
    /\ call.db_type = "pgdg"
    /\ IsXYZ(call.version)
    /\ Len(ret.str) < Len(call.version) + 5

\* C30: the rendering of a version is injective in (version, edition,
\* db_type): two versions that differ in one of the three, as DbVersion.create
\* stored them, have different renderings, different log directories and
\* different log files of the same binary.
C30_RenderingInjective ==
    (/\ pc = "returned" /\ Len(ret) = 2
     /\ \/ ret[1].v.version # ret[2].v.version
        \/ ret[1].v.edition # ret[2].v.edition
        \/ ret[1].v.db_type # ret[2].v.db_type)
        => /\ ret[1].str # ret[2].str
           /\ ret[1].logs_dir # ret[2].logs_dir
           /\ ret[1].logfile # ret[2].logfile

\* Two ttdb versions that differ in the edition alone have been rendered.
C30_Witness ==
    /\ pc = "returned" /\ Len(ret) = 2
    /\ ret[1].v.db_type = "ttdb" /\ ret[2].v.db_type = "ttdb"
    /\ ret[1].v.version = ret[2].v.version
    /\ ret[1].v.edition # ret[2].v.edition
    /\ ret[1].logfile # ret[2].logfile

IsInstaller(e) == IsCmd(e) /\ e.op \in {"db_installer", "pgdg_installer"}

\* The Version field of what dpkg -I printed, <<>> when there is none.
VersionField(out) ==
    IF \E k \in 1..(Len(out) - 1) : out[k] = <<"Version:">>
    THEN out[(CHOOSE k \in 1..(Len(out) - 1) :
                  out[k] = <<"Version:">> /\ \A j \in 1..(k - 1) : out[j] # <<"Version:">>) + 1]
    ELSE <<>>

\* The part of a package version before its first hyphen.
BeforeHyphen(s) ==
    IF \E k \in 1..Len(s) : s[k] = "-"
    THEN SubSeq(s, 1, (CHOOSE k \in 1..Len(s) :
                           s[k] = "-" /\ \A j \in 1..(k - 1) : s[j] # "-") - 1)
    ELSE s

\* C27: with a package file the installer command is issued only after
\* dpkg -I of that file exited with status 0 and printed a Version field that
\* matches the expected version: for pgdg its part before the first hyphen
\* equals the expected version, for ttdb the whole of it does.  In every other
\* case a RuntimeError ends the call and no installer command is issued.
C27_PackageVerified ==
    call.package_path # NoPackage =>
        /\ \A j \in 1..Len(log) :
               IsInstaller(log[j]) =>
                   /\ j = 2
                   /\ log[1].op = "dpkg" /\ log[1].args = <<"-I", call.package_path>>
                   /\ log[1].code = 0
                   /\ VersionField(log[1].out) # <<>>
                   /\ IF call.db_type = "pgdg"
                      THEN BeforeHyphen(VersionField(log[1].out)) = ret.version
                      ELSE VersionField(log[1].out) = ret.version
        /\ (pc = "aborted" /\ error.op = "dpkg") =>
               /\ error.type = "RuntimeError"
               /\ \A j \in 1..Len(log) : ~IsInstaller(log[j])

\* The installer has run from a pgdg package whose version has a suffix.
C27_Witness ==
    /\ pc = "returned"
    /\ call.db_type = "pgdg" /\ call.package_path # NoPackage
    /\ VersionField(log[1].out) # ret.version
    /\ IsInstaller(log[2]) /\ log[2].ok


\* C31: a hook script whose name ends in .sql is executed through
\* run_sql_script, psql -f <name> with the binaries of the current new
\* instance; every other hook script is executed as a shell script, bash
\* <name>, with DB_PATH set to the data path of the current new instance.  The
\* name is the one the list handed to run_scripts has at the command's place.
C31_ScriptKinds ==
    [][\A j \in Appended :
           LET l == log'
               e == l[j]
               names == NamesOf(scripts)
               m == PositionIn(l, j) - 1
               new_db == state.new_db
           IN  (IsCmd(e) /\ e.fn = "run_scripts" /\ e.op # "pg_ctl") =>
                   /\ m \in 1..Len(names)
                   /\ e.ver = VersionStr(new_db.version)
                   /\ IF names[m][Len(names[m])] = ".sql"
                      THEN /\ e.op = "psql"
                           /\ e.args = <<"-f">> \o names[m]
                      ELSE /\ e.op = "bash"
                           /\ e.args = names[m] \o <<"DB_PATH", new_db.data_path>>
                           /\ new_db.data_path = env.new_db]_vars

\* A stage has run a .sql script and a shell script, both without error.
C31_Witness ==
    \E j, k \in 1..Len(log) :
        /\ IsScript(log[j]) /\ log[j].op = "psql" /\ log[j].ok
        /\ IsScript(log[k]) /\ log[k].op = "bash" /\ log[k].ok
        /\ log[j].step = log[k].step /\ log[j].stage = log[k].stage


DbBinaries == {"initdb", "pg_ctl", "psql", "pg_upgrade", "pg_dumpall"}

\* No binary has been run for an instance without a version.
NoBinaryOnNullVersion ==
    \A j \in 1..Len(log) :
        (IsCmd(log[j]) /\ log[j].op \in DbBinaries) =>
            /\ log[j].ver # VersionStr(NoneVersion)
            /\ log[j].ver # <<>>

\* Step 1's prepare_step has moved the data directory and relabelled the
\* instances, and has not returned.
InFirstRelabelling ==
    /\ idx = 1
    /\ \/ pc = "prepare_step" /\ i = 2
       \/ pc = "aborted"
    /\ \E j \in 1..Len(log) : log[j].fn = "prepare_step" /\ log[j].op = "mv" /\ log[j].ok
    /\ ~\E j \in 1..Len(log) : IsReturn(log[j], "prepare_step")

\* C33 as stated: in every RunnerState the new instance has a version, the
\* old instance is without one only before the first prepare_step has
\* returned, and no binary is run for an instance without a version.
C33_NullOnlyOldPlaceholder ==
    state # NoneState =>
        /\ state.new_db.version # NoneVersion
        /\ state.old_db.version = NoneVersion =>
               ~\E j \in 1..Len(log) : IsReturn(log[j], "prepare_step")
        /\ NoBinaryOnNullVersion

\* C33, amended: the instance without a version is the bootstrap placeholder
\* only.  It is the old instance from create_initial_state until the
\* relabelling of the first prepare_step, and it is the NEW instance from that
\* relabelling until the installation of step 1 has succeeded, and for good
\* when the version of step 1 is invalid or its installation fails.  In every
\* other state both instances have a version, and no binary is ever run for an
\* instance without one.
C33_NullOnlyPlaceholder ==
    state # NoneState =>
        LET placeholder == Database(NoneVersion, NoneBin, env.old_db)
        IN  /\ state.new_db.version = NoneVersion <=> InFirstRelabelling
            /\ state.new_db.version = NoneVersion =>
                   /\ state.new_db = placeholder
                   /\ state.old_db.version = InitialVersion
            /\ state.old_db.version = NoneVersion <=>
                   ~\E j \in 1..Len(log) :
                        log[j].fn = "prepare_step" /\ log[j].op = "mv" /\ log[j].ok
            /\ state.old_db.version = NoneVersion =>
                   /\ state.old_db = placeholder
                   /\ state.new_db.version = InitialVersion
                   /\ idx \in {0, 1}
            /\ NoBinaryOnNullVersion

\* The installation of step 1 has failed: the run has stopped with the
\* placeholder as its new instance.
C33_Witness ==
    /\ state # NoneState /\ pc = "aborted" /\ idx = 1
    /\ state.new_db.version = NoneVersion
    /\ log # <<>> /\ IsInstaller(log[Len(log)]) /\ ~log[Len(log)].ok


\* The install-path file has been read: cat has been issued on it.
ReadAttempted ==
    /\ Len(log) = 1
    /\ log[1].op = "cat" /\ log[1].args = install_path_file(call.version)

\* What the install-path file holds when reading it succeeds, <<>> otherwise.
InstallPath ==
    IF ~call.result.raised /\ call.result.exit_code = 0
    THEN strip(call.result.output) ELSE <<>>

TtdbBinDir == <<"/opt/tantor/db/">> \o call.version.major \o <<"/bin">>
DefaultPgdgBinDir == <<"/usr/local/pgsql/">> \o call.version.major \o <<"/bin">>

\* C34 as stated: get_bin_dir returns /opt/tantor/db/<major>/bin for TTDB; for
\* PGDG it first reads /tmp/pg_install_path_<major>.txt and returns
\* <content>/bin, and /usr/local/pgsql/<major>/bin when the read fails or the
\* content is empty.
C34_BinDirAlwaysRead ==
    (call # NoCall /\ pc = "returned" /\ call.version.db_type \in {"ttdb", "pgdg"}) =>
        IF call.version.db_type = "ttdb"
        THEN ret.path = TtdbBinDir
        ELSE /\ ReadAttempted
             /\ ret.path = IF InstallPath # <<>>
                           THEN InstallPath \o <<"/", "bin">>
                           ELSE DefaultPgdgBinDir

\* C34, amended: get_bin_dir returns /opt/tantor/db/<major>/bin for TTDB,
\* without reading anything.  For PGDG installed from a package file it first
\* reads /tmp/pg_install_path_<major>.txt and returns <content>/bin for the
\* stripped content, and /usr/local/pgsql/<major>/bin when the read fails or
\* the content is empty; for PGDG without a package file it reads nothing and
\* returns /usr/local/pgsql/<major>/bin whatever the file holds.
C34_BinDir ==
    (call # NoCall /\ pc = "returned" /\ call.version.db_type \in {"ttdb", "pgdg"}) =>
        IF call.version.db_type = "ttdb"
        THEN /\ ret.path = TtdbBinDir
             /\ log = <<>>
        ELSE IF call.package_path # NoPackage
        THEN /\ ReadAttempted
             /\ ret.path = IF InstallPath # <<>>
                           THEN InstallPath \o <<"/", "bin">>
                           ELSE DefaultPgdgBinDir
        ELSE /\ log = <<>>
             /\ ret.path = DefaultPgdgBinDir

\* get_bin_dir has returned for a PGDG version without a package file while
\* the install-path file holds a path.
C34_Witness ==
    /\ call # NoCall /\ pc = "returned" /\ call.version.db_type = "pgdg"
    /\ call.package_path = NoPackage /\ InstallPath # <<>>
    /\ ret.path = DefaultPgdgBinDir


\* The cluster the step in hand starts from: what the new data path held when
\* prepare_step was called, the cluster of the initial initdb or of the last
\* completed step.
LatestCluster == at_call.disk[env.new_db]

\* The strategy of the step in hand is about to issue its first command.
StrategyBegins ==
    \/ pc \in {"run_pg_upgrade", "run_pg_dumpall"} /\ i = 0
    \/ pc = "run_minor" /\ i = 1

\* C35: the most recently produced cluster data is never destroyed.  Every
\* rm -rf that prepare_step or run_minor carries out removes a directory other
\* than the one holding the cluster of the initial initdb or of the last
\* completed step: that cluster, carrying the data of the run, is in the other
\* data directory and stays there.  It is what the strategy of the next step
\* finds at the old data path.
C35_LatestDataKept ==
    [][/\ \A j \in Appended :
              LET e == log'[j]
              IN  (IsCmd(e) /\ e.op = "rm" /\ e.ok /\ e.fn \in {"prepare_step", "run_minor"}) =>
                      LET target == e.args[2]
                          kept == IF e.fn = "prepare_step" THEN env.new_db ELSE env.old_db
                      IN  /\ target \in DataDirs \ {kept}
                          /\ disk[target] # LatestCluster
                          /\ disk[kept] = LatestCluster
                          /\ disk[kept].cluster /\ disk[kept].data
                          /\ disk'[kept] = disk[kept]
       /\ StrategyBegins =>
              /\ disk[env.old_db] = LatestCluster
              /\ disk[env.old_db].cluster /\ disk[env.old_db].data
              /\ state.old_db.data_path = env.old_db]_vars

\* A run of two steps is through in which prepare_step has removed the
\* cluster before the last and run_minor has removed the new data path.
C35_Witness ==
    /\ pc = "done"
    /\ \E j \in 1..Len(log) :
           /\ log[j].fn = "prepare_step" /\ log[j].op = "rm" /\ log[j].ok /\ log[j].step = 2
    /\ \E j \in 1..Len(log) : log[j].fn = "run_minor" /\ log[j].op = "rm" /\ log[j].ok
    /\ disk[env.new_db].cluster /\ disk[env.new_db].data


\* C36: whenever an instance is started, its data directory exists and holds
\* a cluster: every pg_ctl start the runner issues, in a strategy or in a hook
\* stage (the pre-script stage of a minor step included), names a data
\* directory that holds a cluster at that moment.
C36_StartedOnCluster ==
    [][\A j \in Appended :
           LET e == log'[j]
           IN  (IsCmd(e) /\ e.op = "pg_ctl" /\ e.args[3] = "start") =>
                   /\ e.args[2] \in DataDirs
                   /\ disk[e.args[2]].exists
                   /\ disk[e.args[2]].cluster]_vars


\* A start or a stop of an instance.
IsStart(e) == IsCmd(e) /\ e.op = "pg_ctl" /\ e.args[3] = "start"
IsStop(e) == IsCmd(e) /\ e.op = "pg_ctl" /\ e.args[3] = "stop"

\* C37: at most one instance is running at any time.  A start is issued only
\* while no instance is running, so the old and the new instance are never
\* both started and no instance is started again without a stop in between; a
\* stop is issued only for the instance that is running; and the instance a
\* start or stop names is the old or the new instance of the RunnerState.
C37_OneInstanceRunning ==
    [][/\ Cardinality(running') <= 1
       /\ \A j \in Appended :
              LET e == log'[j]
              IN  /\ IsStart(e) =>
                         /\ running = {}
                         /\ running' = IF e.ok THEN {e.args[2]} ELSE {}
                  /\ IsStop(e) =>
                         /\ running = {e.args[2]}
                         /\ running' = IF e.ok THEN {} ELSE running
                  /\ (IsStart(e) \/ IsStop(e)) =>
                         e.args[2] \in {state.old_db.data_path, state.new_db.data_path}
                  /\ (IsCmd(e) /\ e.op # "pg_ctl") => running' = running]_vars

\* A dump-and-reload step is through: the old instance has been started and
\* stopped, then the new one, and none is running.
C37_Witness ==
    /\ running = {}
    /\ \E j, k \in 1..Len(log) :
           /\ j < k
           /\ IsStop(log[j]) /\ log[j].ok /\ log[j].args[2] = env.old_db
           /\ IsStart(log[k]) /\ log[k].ok /\ log[k].args[2] = env.new_db
           /\ log[j].fn = "run_pg_dumpall" /\ log[k].fn = "run_pg_dumpall"
    /\ \E j \in 1..Len(log) : IsReturn(log[j], "run_pg_dumpall")


\* C38 as stated: whenever the runner issues a command, the old and the new
\* instance of the RunnerState have different data paths, the old one env.old_db
\* and the new one env.new_db; so also for the installer call of prepare_step
\* and in the state left behind when that installation fails.
C38_DistinctDataPaths ==
    [][(state # NoneState /\ Len(log') > Len(log)) =>
           /\ state.old_db.data_path = env.old_db
           /\ state.new_db.data_path = env.new_db
           /\ pc' = "aborted" =>
                  /\ state'.old_db.data_path = env.old_db
                  /\ state'.new_db.data_path = env.new_db]_vars

\* prepare_step has relabelled the instances and has not yet put the new
\* instance of its step into the RunnerState.
InRelabelling ==
    \/ pc = "prepare_step" /\ i = 2
    \/ /\ pc = "aborted"
       /\ \E j \in 1..Len(log) :
              /\ log[j].fn = "prepare_step" /\ log[j].op = "mv" /\ log[j].ok
              /\ log[j].step = idx
       /\ ~\E j \in 1..Len(log) : IsReturn(log[j], "prepare_step") /\ log[j].step = idx

\* C38, amended: the old instance of the RunnerState is always at env.old_db.
\* The new instance is at env.new_db, and the two data paths differ, in every
\* state but those of prepare_step between its relabelling and the assignment
\* of the new instance: there, that is while prepare_step issues the installer
\* command and in the state left behind when the step's version is invalid or
\* the installation fails, both instances have the data path env.old_db.  Every
\* other command is issued with the instances at different data paths.
C38_DataPaths ==
    state # NoneState =>
        /\ state.old_db.data_path = env.old_db
        /\ state.new_db.data_path = IF InRelabelling THEN env.old_db ELSE env.new_db
        /\ (log # <<>> /\ IsCmd(log[Len(log)]) /\ ~IsInstaller(log[Len(log)])
                /\ log[Len(log)].fn # "prepare_step") =>
               state.new_db.data_path # state.old_db.data_path

\* The installation of a step has failed and has left both instances of the
\* RunnerState with the data path env.old_db.
C38_Witness ==
    /\ state # NoneState /\ pc = "aborted"
    /\ log # <<>> /\ IsInstaller(log[Len(log)]) /\ ~log[Len(log)].ok
    /\ log[Len(log)].fn = "prepare_step"
    /\ state.new_db.data_path = env.old_db /\ state.old_db.data_path = env.old_db


\* The successful starts of log l that no later successful stop of the same
\* instance matches.
Unmatched(l) ==
    { j \in 1..Len(l) :
        /\ IsStart(l[j]) /\ l[j].ok
        /\ ~\E k \in (j + 1)..Len(l) :
               IsStop(l[k]) /\ l[k].ok /\ l[k].args[2] = l[j].args[2] }

\* C39: on a successful run every start of an instance is matched by a later
\* stop of that instance, and nothing is running at the end.  When the run
\* aborts between a start and its stop (a hook script, the dump, the load of
\* the dump or the extensions script fails, or a hook script is not found), the
\* step that aborts issues no stop, the start stays unmatched and that
\* instance is still running in the aborted run.
C39_StartsMatchedUnlessAborted ==
    [][/\ pc' = "done" =>
              /\ Unmatched(log') = {}
              /\ running' = {}
       /\ (pc # "aborted" /\ pc' = "aborted" /\ running # {}) =>
              /\ \A j \in Appended : ~(IsStop(log'[j]) /\ log'[j].ok)
              /\ running' = running
              /\ Cardinality(Unmatched(log')) = 1
              /\ running' = { log'[j].args[2] : j \in Unmatched(log') }
              /\ \A j \in Appended :
                     IsCmd(log'[j]) =>
                         /\ log'[j].op \in {"psql", "bash", "pg_dumpall", "pg_ctl"}
                         /\ log'[j].fn \in {"run_scripts", "run_pg_dumpall", "run_pg_upgrade",
                                            "run_minor"}]_vars

\* A run has aborted at a failing hook script with the new instance running.
C39_Witness ==
    /\ pc = "aborted"
    /\ running = {env.new_db}
    /\ log # <<>> /\ IsScript(log[Len(log)]) /\ ~log[Len(log)].ok
    /\ IsStart(log[Len(log) - 1]) /\ log[Len(log) - 1].ok


\* The installer commands of the log, in the order issued.
Installations == SelectSeq(log, IsInstaller)

====
